---------------------------- MODULE Spec2Model ----------------------------
(***************************************************************************)
(* Budget tracker backend: Express handlers over three MongoDB            *)
(* collections (users, entries, notifications), the protect middleware     *)
(* and the boot-time notification wipe.                                    *)
(*                                                                         *)
(* Spec      : the auth, profile and entry routes; every request is        *)
(*             handled to completion before the next one starts (one       *)
(*             action per handler).                                        *)
(* SpecNotif : Spec and the notification routes.                           *)
(* SpecRows  : signup and the routes that write entries or notifications.  *)
(* SpecAuth  : signup and updateProfile, two requests in flight, their      *)
(*             steps interleaved at every await.                           *)
(* SpecRead  : the read routes, the entry writes of one account, restarts.  *)
(* SpecAnalysis : the budget analysis for every range, current date and    *)
(*             time zone of the server.                                    *)
(* SpecClient : the frontend in one browser tab: AuthContext, the storage  *)
(*             it writes, the route guards.                                *)
(* SpecLogin : signup, login and updateProfile, one request at a time.      *)
(* SpecList  : the notification routes on a database that holds more       *)
(*             notifications than the list route returns.                  *)
(* SpecBoot  : signup and the routes that write entries, on a server       *)
(*             process that is started again at any time.                  *)
(* SpecConc  : addEntry / updateEntry / deleteEntry advance one await at a *)
(*             time, so two requests interleave between their database     *)
(*             calls.                                                      *)
(*                                                                         *)
(* Database calls are assumed to succeed unless the code itself handles    *)
(* the failure (the boot-time wipe and the connection attempt).            *)
(***************************************************************************)
EXTENDS Integers, FiniteSets, Sequences, TLC

VARIABLES
  users,          \* sequence of user documents; a user's _id is its index
  entries,        \* set of entry documents
  notifications,  \* set of notification documents
  nextEntryId,    \* next fresh entry _id
  nextNotifId,    \* next fresh notification _id (also its createdAt order)
  removed,        \* history: entries that were deleted, as <<_id, userId>>
  boot,           \* server process: [conn, wipe]
  reqs,           \* SpecConc: requests in flight, one per slot
  client          \* SpecClient: the browser tab running the frontend

vars == <<users, entries, notifications, nextEntryId, nextNotifId,
          removed, boot, reqs, client>>

db == <<users, entries, notifications, nextEntryId, nextNotifId, removed>>

-----------------------------------------------------------------------------
(* Bounds *)

MaxAmount == 1      \* prices and budget limits range over 0..MaxAmount
MaxNotifs == 2      \* notification ids ever allocated; every entry mutation
                    \* allocates one, so it bounds the entry ids as well

MaxConcNotifs == 3  \* the same under SpecConc: a race on an entry takes one
                    \* mutation to create it and two to race on it

NotifLimit == 50    \* getUserNotifications .limit(50)

MaxListed == 52     \* SpecList: notifications in the database

MaxAnalysed == 3    \* SpecAnalysis: entries in the database

MaxLogins == 2      \* SpecClient: tokens the tab is issued

MaxPaged == 9       \* SpecPages: entries in the database

MaxPage == 3        \* SpecPages: the largest page or limit a request names

MaxChanges == 2     \* SpecView: range changes while the page is mounted

Emails == {"a@x.com", "b@x.com"}
\* dates are 'YYYY-MM-DD' strings, written as the number yyyymmdd: the order
\* of the numbers is the order MongoDB gives the strings
Dates == {20240229, 20240301}
\* request bodies carry one of two (title, date) pairs
Bodies == {[title |-> "rent", date |-> 20240229],
           [title |-> "food", date |-> 20240301]}
Slots == {"r1", "r2"}

UserIds == 1..Cardinality(Emails)

Absent == "absent"
NaN == [nan |-> TRUE, n |-> 0]
Undefined == [type |-> "undefined", n |-> 0]
NoToken == [present |-> FALSE, id |-> 0, role |-> "", signed |-> FALSE,
            expired |-> FALSE]
NoDoc == [id |-> 0, userId |-> 0, title |-> "", price |-> 0, date |-> 0]
Idle == [op |-> "idle", pc |-> "idle", user |-> 0, id |-> 0, title |-> "",
         price |-> 0, date |-> 0, limit |-> 0, doc |-> NoDoc,
         email |-> Absent, setLimit |-> FALSE]

\* the frontend: storage.getItem gives null for a missing key, useState(null)
NullToken == [n |-> 0, email |-> ""]
NullUser == [email |-> "", budgetLimit |-> 0]

\* the ranges the Analysis page offers
PageRanges == {"last-month", "last-6-months", "last-12-months"}

\* the state of the Analysis page when it is not mounted: useState's initial
\* values, no request in flight; budgetAnalysis is "null" or the range whose
\* data it holds, analysisCache the ranges it has data for
NoAnalysisPage ==
  [mounted |-> FALSE, rangeFilter |-> "last-12-months",
   budgetAnalysis |-> "null", loading |-> TRUE, analysisCache |-> {},
   inFlight |-> [r \in PageRanges |-> 0],
   settled |-> [r \in PageRanges |-> "none"],
   changes |-> 0, fetches |-> 0]

\* the tab after the app was opened with empty storage and checkAuth ran
ClientStart ==
  [local |-> [token |-> NullToken, rememberMe |-> "", serverStartTime |-> 0,
              storedServerStartTime |-> 0],
   session |-> [token |-> NullToken],
   token |-> NullToken, user |-> NullUser, isLoading |-> FALSE,
   checkAuth |-> [pc |-> "idle", sent |-> NullToken],
   login |-> [pc |-> "idle", rememberMe |-> FALSE, email |-> "",
              token |-> NullToken, sent |-> NullToken],
   issued |-> 0,
   analysis |-> NoAnalysisPage]

\* the price of a JSON body: missing, null, a boolean, a string or a number
RawPrices ==
  {[type |-> "undefined", n |-> 0, text |-> ""],
   [type |-> "null", n |-> 0, text |-> ""],
   [type |-> "boolean", n |-> 1, text |-> ""],
   [type |-> "string", n |-> 0, text |-> "abc"],
   [type |-> "string", n |-> 0, text |-> ""],
   [type |-> "string", n |-> 0, text |-> "1"]}
  \cup {[type |-> "number", n |-> k, text |-> ""] : k \in -1..MaxAmount}

\* Number(value): undefined and a string that is no numeral give NaN, null
\* and the empty string give 0, true gives 1, false 0, a numeral its value
Number(raw) ==
  CASE raw.type = "number" -> [nan |-> FALSE, n |-> raw.n]
    [] raw.type = "boolean" -> [nan |-> FALSE, n |-> raw.n]
    [] raw.type = "null" -> [nan |-> FALSE, n |-> 0]
    [] raw.type = "string" /\ raw.text = "" -> [nan |-> FALSE, n |-> 0]
    [] raw.type = "string" /\ raw.text = "1" -> [nan |-> FALSE, n |-> 1]
    [] OTHER -> NaN

\* request inputs: Number(price) of the body's price, the body's budgetLimit
\* (a number or missing), the body's email (a string or missing), the :id
\* parameter (0 stands for a string that is no ObjectId), the bearer token
\* (none, one with a bad signature, an expired one, a good one per user id)
PriceInputs == {Number(raw) : raw \in RawPrices}
LimitInputs == {Undefined} \cup {[type |-> "number", n |-> k] : k \in -1..MaxAmount}
EmailInputs == Emails \cup {Absent}
\* a body field that holds a string: missing, null, a value that is no
\* string, or one of the strings
Null == "null"
NotAString == "not a string"
NoImage == "no image"
NameInputs == {Absent, NotAString, "Ann", "Bob"}
ImageInputs == {Absent, Null, NotAString, "pic.png"}
Passwords == {"pw1", "pw2"}
PasswordInputs == Passwords \cup {Absent}
Salts == {"salt1", "salt2"}
EntryIdInputs == 0..MaxNotifs
NotifIdInputs == 1..MaxNotifs
\* jwt.sign({ id, role }, JWT_SECRET, { expiresIn: '1h' }), within its hour
generateToken(id, role) ==
  [present |-> TRUE, id |-> id, role |-> role, signed |-> TRUE,
   expired |-> FALSE]
TokenOf(id) == generateToken(id, "user")
ForgedToken == [TokenOf(1) EXCEPT !.signed = FALSE]
ExpiredToken == [TokenOf(1) EXCEPT !.expired = TRUE]
Tokens == {NoToken, ForgedToken, ExpiredToken} \cup {TokenOf(i) : i \in UserIds}

-----------------------------------------------------------------------------
(* Helpers *)

RECURSIVE SumPrices(_)
SumPrices(S) ==
  IF S = {} THEN 0
  ELSE LET e == CHOOSE x \in S : TRUE IN e.price + SumPrices(S \ {e})

Response(status, msg, body) == [status |-> status, msg |-> msg, body |-> body]

UserExists(id) == id \in DOMAIN users

\* mutant: the expiry is not looked at
JwtVerifyIgnoreExpiration(token) == token.signed

\* jwt.verify: the signature matches and the token has not expired
JwtVerify(token) == token.signed /\ ~token.expired

\* middleware protect: a 401 response, or req.user (status 0: next() is called)
protect(token) ==
  IF ~token.present
    THEN [status |-> 401, msg |-> "Not authorized, no token", user |-> [id |-> 0, role |-> ""]]
  ELSE IF ~JwtVerify(token)
    THEN [status |-> 401, msg |-> "Not authorized, token failed", user |-> [id |-> 0, role |-> ""]]
  ELSE IF ~UserExists(token.id)
    THEN [status |-> 401, msg |-> "Not authorized, user not found", user |-> [id |-> 0, role |-> ""]]
  ELSE [status |-> 0, msg |-> "",
        user |-> [id |-> token.id, role |-> users[token.id].role]]

\* Number(price) is NaN or negative
InvalidPrice(price) == price.nan \/ price.n < 0

\* mongoose.Types.ObjectId.isValid(id)
ObjectIdIsValid(id) == id >= 1

\* mutant: the $ne filter on _id is left out
TotalExpensesAll(uid, except) ==
  SumPrices({e \in entries : e.userId = uid})

\* Entry.aggregate $match userId (and _id $ne except) $group $sum price
TotalExpenses(uid, except) ==
  SumPrices({e \in entries : e.userId = uid /\ e.id # except})

\* mutant: >= in place of >
BudgetExceededAtLimit(currentTotal, price, budgetLimit) ==
  currentTotal + price >= budgetLimit

\* mutant: the price alone is compared with the limit
BudgetExceededPriceOnly(currentTotal, price, budgetLimit) ==
  price > budgetLimit

\* currentTotal + numericPrice > user.budgetLimit
BudgetExceeded(currentTotal, price, budgetLimit) ==
  currentTotal + price > budgetLimit

\* mutant: the entry is looked up by _id alone
FindEntryById(id, uid) == {e \in entries : e.id = id}

\* Entry.findOne({ _id, userId })
FindEntry(id, uid) == {e \in entries : e.id = id /\ e.userId = uid}

NewEntry(uid, title, price, date) ==
  [id |-> nextEntryId, userId |-> uid, title |-> title, price |-> price,
   date |-> date]

\* mutant: the notification is created already read
NewNotificationRead(uid, title, type, about) ==
  [id |-> nextNotifId, userId |-> uid, message |-> title, type |-> type,
   isRead |-> TRUE, about |-> about]

\* new Notification({ userId, message, type }); isRead defaults to false.
\* about is bookkeeping: the entry the message is about.
NewNotification(uid, title, type, about) ==
  [id |-> nextNotifId, userId |-> uid, message |-> title, type |-> type,
   isRead |-> FALSE, about |-> about]

Serving == boot.conn = "connected"

\* every successful mutation allocates a notification id
CanNotify == nextNotifId <= MaxNotifs

-----------------------------------------------------------------------------
(* Server boot *)

Init ==
  /\ users = <<>>
  /\ entries = {}
  /\ notifications = {}
  /\ nextEntryId = 1
  /\ nextNotifId = 1
  /\ removed = {}
  /\ boot = [conn |-> "connecting", wipe |-> "pending"]
  /\ reqs = [s \in Slots |-> Idle]
  /\ client = ClientStart

\* the first boot has completed on an empty database
Booted ==
  /\ users = <<>>
  /\ entries = {}
  /\ notifications = {}
  /\ nextEntryId = 1
  /\ nextNotifId = 1
  /\ removed = {}
  /\ boot = [conn |-> "connected", wipe |-> "cleared"]
  /\ reqs = [s \in Slots |-> Idle]
  /\ client = ClientStart

\* the process is started again; requests in flight die with the old process
Restart ==
  /\ boot' = [conn |-> "connecting", wipe |-> "pending"]
  /\ reqs' = [s \in Slots |-> Idle]
  /\ UNCHANGED <<db, client>>

\* mongoose.connect resolves
Connect ==
  /\ boot.conn = "connecting"
  /\ boot' = [boot EXCEPT !.conn = "connected"]
  /\ UNCHANGED <<db, reqs, client>>

\* mongoose.connect rejects: logged, the process keeps running without a db
ConnectFail ==
  /\ boot.conn = "connecting"
  /\ boot' = [boot EXCEPT !.conn = "failed"]
  /\ UNCHANGED <<db, reqs, client>>

\* mutant: deleteMany({ isRead: true })
WipeNotificationsRead(ns) == {n \in ns : ~n.isRead}

\* what Notification.deleteMany({}) leaves of the collection
WipeNotifications(ns) == {}

\* Notification.deleteMany({}) resolves
WipeOk ==
  /\ boot.conn = "connected" /\ boot.wipe = "pending"
  /\ notifications' = WipeNotifications(notifications)
  /\ boot' = [boot EXCEPT !.wipe = "cleared"]
  /\ UNCHANGED <<users, entries, nextEntryId, nextNotifId, removed, reqs,
                 client>>

\* Notification.deleteMany({}) rejects: caught and logged
WipeFail ==
  /\ boot.conn = "connected" /\ boot.wipe = "pending"
  /\ boot' = [boot EXCEPT !.wipe = "error"]
  /\ UNCHANGED <<db, reqs, client>>

-----------------------------------------------------------------------------
(* Auth and profile handlers.  XResponse is the response the handler sends  *)
(* in the current state; the action X applies the handler's writes.         *)

\* userSchema validators run by user.save(): budgetLimit is required, min 0
ValidBudgetLimit(limit) == limit.type = "number" /\ limit.n >= 0

EmailTaken(email) == \E i \in DOMAIN users : users[i].email = email

\* bcrypt.hash(password, 10) with the salt it generated
Hash(password, salt) == [salt |-> salt, digest |-> <<salt, password>>]

\* the password and salt of a signup in the specifications where no handler
\* reads the stored password
AnyPassword == CHOOSE p \in Passwords : TRUE
AnySalt == CHOOSE x \in Salts : TRUE

\* the user document signup saves; password is the hash the pre-save hook
\* stored
NewUser(email, password, budgetLimit) ==
  [email |-> email, password |-> password, budgetLimit |-> budgetLimit,
   role |-> "user", firstName |-> "Ann", profileImageUrl |-> NoImage]

Profile(id, user) ==
  [id |-> id, email |-> user.email, budgetLimit |-> user.budgetLimit,
   role |-> user.role]

signupResponse(email, password, budgetLimit) ==
  IF EmailTaken(email)
    THEN Response(400, "An account already exists with this email", {})
  ELSE IF ~ValidBudgetLimit(budgetLimit) \/ password = Absent
    THEN Response(500, "User validation failed", {})
  ELSE Response(201, "User created successfully",
                {[token |-> TokenOf(Len(users) + 1),
                  user |-> Profile(Len(users) + 1,
                                   [email |-> email,
                                    budgetLimit |-> budgetLimit.n,
                                    role |-> "user"])]})

\* POST /api/signup; salt is the salt bcrypt draws in the pre-save hook
signup(email, password, salt, budgetLimit) ==
  /\ Serving
  /\ IF signupResponse(email, password, budgetLimit).status = 201
       THEN users' = Append(users, NewUser(email, Hash(password, salt),
                                           budgetLimit.n))
       ELSE UNCHANGED users
  /\ UNCHANGED <<entries, notifications, nextEntryId, nextNotifId, removed,
                 boot, client, reqs>>

\* userSchema.methods.comparePassword: bcrypt.compare(password, this.password)
\* re-derives the digest from the salt kept in the hash
comparePassword(user, password) ==
  user.password.digest = <<user.password.salt, password>>

\* login; a body without a password makes bcrypt.compare reject, the error
\* reaches Express' default error handler
loginResponse(email, password) ==
  IF ~EmailTaken(email) THEN Response(400, "Invalid credentials", {})
  ELSE
    LET id == CHOOSE i \in DOMAIN users : users[i].email = email
        user == users[id]
    IN
    IF password = Absent
      THEN Response(500, "data and hash arguments required", {})
    ELSE IF ~comparePassword(user, password)
      THEN Response(400, "Invalid credentials", {})
    ELSE Response(200, "Login successful",
                  {[token |-> generateToken(id, user.role),
                    user |-> Profile(id, user)]})

\* POST /api/login
login(email, password) ==
  /\ Serving
  /\ loginResponse(email, password).status \in {200, 400, 500}
  /\ UNCHANGED vars

getProfileResponse(token) ==
  LET auth == protect(token) IN
  IF auth.status # 0 THEN Response(auth.status, auth.msg, {})
  ELSE Response(200, "", {Profile(auth.user.id, users[auth.user.id])})

\* GET /api/profile
getProfile(token) ==
  /\ Serving
  /\ getProfileResponse(token).status \in {200, 401}
  /\ UNCHANGED vars

\* the user document updateProfile saves: email when given and different,
\* firstName when it is a string, budgetLimit when it is a number,
\* profileImageUrl unset when it is null or undefined and set when it is a
\* string; the pre-save hook leaves an unmodified password as it is
UpdatedProfile(user, email, budgetLimit, firstName, profileImageUrl) ==
  [user EXCEPT
     !.email = IF email # Absent THEN email ELSE @,
     !.firstName = IF firstName \notin {Absent, Null, NotAString}
                     THEN firstName ELSE @,
     !.budgetLimit = IF budgetLimit.type = "number" THEN budgetLimit.n ELSE @,
     !.profileImageUrl =
        IF profileImageUrl \in {Absent, Null} THEN NoImage
        ELSE IF profileImageUrl # NotAString THEN profileImageUrl
        ELSE @]

\* the same for a body that holds email and budgetLimit only
UpdatedUser(user, email, budgetLimit) ==
  UpdatedProfile(user, email, budgetLimit, Absent, Absent)

\* the response body of updateProfile
SavedProfile(id, user) ==
  [id |-> id, email |-> user.email, budgetLimit |-> user.budgetLimit,
   role |-> user.role, firstName |-> user.firstName,
   profileImageUrl |-> user.profileImageUrl]

updateProfileBodyResponse(token, email, budgetLimit, firstName, profileImageUrl) ==
  LET auth == protect(token) IN
  IF auth.status # 0 THEN Response(auth.status, auth.msg, {})
  ELSE
    LET user == users[auth.user.id]
        saved == UpdatedProfile(user, email, budgetLimit, firstName,
                                profileImageUrl)
    IN
    IF email # Absent /\ email # user.email /\ EmailTaken(email)
      THEN Response(400, "An account already exists with this email", {})
    ELSE IF saved.budgetLimit < 0
      THEN Response(500, "User validation failed", {})
    ELSE Response(200, "", {SavedProfile(auth.user.id, saved)})

\* PUT /api/profile with a body of these four fields
updateProfileBody(token, email, budgetLimit, firstName, profileImageUrl) ==
  /\ Serving
  /\ IF updateProfileBodyResponse(token, email, budgetLimit, firstName,
                                  profileImageUrl).status = 200
       THEN users' = [users EXCEPT ![token.id] =
                        UpdatedProfile(users[token.id], email, budgetLimit,
                                       firstName, profileImageUrl)]
       ELSE UNCHANGED users
  /\ UNCHANGED <<entries, notifications, nextEntryId, nextNotifId, removed,
                 boot, client, reqs>>

updateProfileResponse(token, email, budgetLimit) ==
  LET auth == protect(token) IN
  IF auth.status # 0 THEN Response(auth.status, auth.msg, {})
  ELSE
    LET user == users[auth.user.id]
        saved == UpdatedUser(user, email, budgetLimit)
    IN
    IF email # Absent /\ email # user.email /\ EmailTaken(email)
      THEN Response(400, "An account already exists with this email", {})
    ELSE IF saved.budgetLimit < 0
      THEN Response(500, "User validation failed", {})
    ELSE Response(200, "", {Profile(auth.user.id, saved)})

\* PUT /api/profile
updateProfile(token, email, budgetLimit) ==
  /\ Serving
  /\ IF updateProfileResponse(token, email, budgetLimit).status = 200
       THEN users' = [users EXCEPT ![token.id] =
                        UpdatedUser(users[token.id], email, budgetLimit)]
       ELSE UNCHANGED users
  /\ UNCHANGED <<entries, notifications, nextEntryId, nextNotifId, removed,
                 boot, client, reqs>>

-----------------------------------------------------------------------------
(* Entry handlers, each request handled to completion *)

\* the document entry.save() writes after title, price and date are assigned
UpdatedEntry(doc, title, price, date) ==
  [doc EXCEPT !.title = title, !.price = price, !.date = date]

getUserEntriesResponse(token) ==
  LET auth == protect(token) IN
  IF auth.status # 0 THEN Response(auth.status, auth.msg, {})
  ELSE Response(200, "", {e \in entries : e.userId = auth.user.id})

\* GET /api/entries with the default page, limit and filters
getUserEntries(token) ==
  /\ Serving
  /\ getUserEntriesResponse(token).status \in {200, 401}
  /\ UNCHANGED vars

\* the range query parameter: the three ranges, another string, none
Ranges == {"last-month", "last-6-months", "last-12-months", "yearly", Absent}

\* new Date() in the server's time zone, as a local date
Nows == {20240115, 20240331}

\* the server's offset from UTC in hours: west of UTC, UTC, east of UTC
TimeZones == {-5, 0, 5}

Year(date) == date \div 10000
Month(date) == (date \div 100) % 100
Day(date) == date % 100

IsLeapYear(y) == (y % 4 = 0 /\ y % 100 # 0) \/ y % 400 = 0

DaysInMonth(y, m) ==
  IF m = 2 THEN (IF IsLeapYear(y) THEN 29 ELSE 28)
  ELSE IF m \in {4, 6, 9, 11} THEN 30
  ELSE 31

\* new Date(year, monthIndex, day): local midnight of that day; a monthIndex
\* outside 0..11 carries into the year, day 0 is the last day of the month
\* before
NewDate(year, monthIndex, day) ==
  LET y == year + (monthIndex \div 12)
      m == (monthIndex % 12) + 1
      py == IF m = 1 THEN y - 1 ELSE y
      pm == IF m = 1 THEN 12 ELSE m - 1
  IN IF day >= 1 THEN y * 10000 + m * 100 + day
     ELSE py * 10000 + pm * 100 + DaysInMonth(py, pm)

PrevDay(date) == NewDate(Year(date), Month(date) - 1, Day(date) - 1)

\* date.toISOString().split('T')[0] of a local midnight: east of UTC the UTC
\* date is still the day before
ToISODate(date, tz) == IF tz > 0 THEN PrevDay(date) ELSE date

\* new Date('YYYY-MM-DD') is midnight UTC; getFullYear / getMonth read it in
\* local time: west of UTC that is still the day before
LocalDate(date, tz) == IF tz < 0 THEN PrevDay(date) ELSE date

\* startDate of the switch on range
RangeStart(range, now) ==
  LET currentYear == Year(now)
      currentMonth == Month(now) - 1
  IN
  IF range = "last-month"
    THEN NewDate(IF currentMonth = 0 THEN currentYear - 1 ELSE currentYear,
                 IF currentMonth = 0 THEN 11 ELSE currentMonth - 1, 1)
  ELSE IF range = "last-6-months"
    THEN NewDate(currentYear, currentMonth - 5, 1)
  ELSE NewDate(currentYear, currentMonth - 11, 1)

\* endDate of the switch on range
RangeEnd(range, now) ==
  LET currentYear == Year(now)
      currentMonth == Month(now) - 1
  IN
  IF range = "last-month"
    THEN NewDate(IF currentMonth = 0 THEN currentYear - 1 ELSE currentYear,
                 (IF currentMonth = 0 THEN 11 ELSE currentMonth - 1) + 1, 0)
  ELSE NewDate(currentYear, currentMonth + 1, 0)

\* Entry.find({ userId, date: { $gte: startDateStr, $lte: endDateStr } })
AllEntries(uid, startDateStr, endDateStr) ==
  {e \in entries : /\ e.userId = uid
                   /\ e.date >= startDateStr
                   /\ e.date <= endDateStr}

\* mutant: a bucket that reaches the limit counts as exceeded
BucketExceededAtLimit(totalExpenses, budgetLimit) ==
  totalExpenses >= budgetLimit

\* exceeded of a month or day bucket
BucketExceeded(totalExpenses, budgetLimit) == totalExpenses > budgetLimit

\* one element of months: monthlyExpenses.get(`${year}-${month}`) or 0
MonthBucket(current, allEntries, budgetLimit, tz) ==
  LET totalExpenses ==
        SumPrices({e \in allEntries :
                     /\ Year(LocalDate(e.date, tz)) = Year(current)
                     /\ Month(LocalDate(e.date, tz)) = Month(current)})
  IN [year |-> Year(current), month |-> Month(current),
      totalExpenses |-> totalExpenses, budgetLimit |-> budgetLimit,
      exceeded |-> BucketExceeded(totalExpenses, budgetLimit),
      remaining |-> budgetLimit - totalExpenses]

\* the loop while (current <= endDate) with current.setMonth(month + 1);
\* next is current after setMonth
RECURSIVE MonthBuckets(_, _, _, _, _)
MonthBuckets(current, endDate, allEntries, budgetLimit, tz) ==
  IF current > endDate THEN <<>>
  ELSE LET rest == {MonthBuckets(next, endDate, allEntries, budgetLimit, tz) :
                      next \in {NewDate(Year(current), Month(current), 1)}}
       IN <<MonthBucket(current, allEntries, budgetLimit, tz)>>
          \o (CHOOSE r \in rest : TRUE)

\* one element of days: dailyExpenses.get(key) or 0, the key being the ISO
\* date of the local midnight of that day
DayBucket(startDate, day, allEntries, budgetLimit, tz) ==
  LET dateObj == NewDate(Year(startDate), Month(startDate) - 1, day)
      key == ToISODate(dateObj, tz)
      totalExpenses == SumPrices({e \in allEntries : e.date = key})
  IN [year |-> Year(dateObj), month |-> Month(dateObj), day |-> day,
      date |-> key, totalExpenses |-> totalExpenses,
      budgetLimit |-> budgetLimit,
      exceeded |-> BucketExceeded(totalExpenses, budgetLimit),
      remaining |-> budgetLimit - totalExpenses]

RECURSIVE SumTotals(_)
SumTotals(buckets) ==
  IF buckets = <<>> THEN 0
  ELSE Head(buckets).totalExpenses + SumTotals(Tail(buckets))

\* the response object; hasDays tells whether analysis has the days key
AnalysisResponse(uid, range, budgetLimit, months, days) ==
  [user |-> [id |-> uid, budgetLimit |-> budgetLimit],
   analysis |->
     [range |-> IF range = Absent THEN "last-12-months" ELSE range,
      months |-> months,
      hasDays |-> range = "last-month",
      days |-> days,
      totalExpenses |-> SumTotals(months),
      totalBudget |-> Len(months) * budgetLimit,
      overallExceeded |-> \E i \in DOMAIN months : months[i].exceeded]]

\* the handler after User.findById: the date range, the query, months and
\* days, each computed once, and the response built from them
Analysis(uid, range, now, tz) ==
  LET user == users[uid]
      startDate == RangeStart(range, now)
      endDate == RangeEnd(range, now)
      responses ==
        {AnalysisResponse(
           uid, range, user.budgetLimit,
           MonthBuckets(startDate, endDate, allEntries, user.budgetLimit, tz),
           IF range = "last-month"
             THEN [day \in 1..Day(endDate) |->
                     DayBucket(startDate, day, allEntries, user.budgetLimit,
                               tz)]
             ELSE <<>>) :
           allEntries \in {AllEntries(uid, ToISODate(startDate, tz),
                                      ToISODate(endDate, tz))}}
  IN CHOOSE response \in responses : TRUE

getBudgetAnalysisResponse(token, range, now, tz) ==
  LET auth == protect(token) IN
  IF auth.status # 0 THEN Response(auth.status, auth.msg, {})
  ELSE Response(200, "", {Analysis(auth.user.id, range, now, tz)})

\* GET /api/entries/analysis?range=..., served at local date now by a process
\* whose time zone is tz
getBudgetAnalysis(token, range, now, tz) ==
  /\ Serving
  /\ getBudgetAnalysisResponse(token, range, now, tz).status \in {200, 401}
  /\ UNCHANGED vars

addEntryResponse(token, title, price, date) ==
  LET auth == protect(token) IN
  IF auth.status # 0 THEN Response(auth.status, auth.msg, {})
  ELSE IF InvalidPrice(price) THEN Response(400, "Invalid price value", {})
  ELSE IF BudgetExceeded(TotalExpenses(auth.user.id, 0), price.n,
                         users[auth.user.id].budgetLimit)
    THEN Response(400, "Budget limit exceeded", {})
  ELSE Response(201, "", {NewEntry(auth.user.id, title, price.n, date)})

\* POST /api/entries
addEntry(token, title, price, date) ==
  /\ Serving
  /\ LET r == addEntryResponse(token, title, price, date) IN
       IF r.status = 201
         THEN /\ CanNotify
              /\ entries' = entries \cup r.body
              /\ nextEntryId' = nextEntryId + 1
              /\ notifications' = notifications \cup
                   {NewNotification(token.id, title, "add", nextEntryId)}
              /\ nextNotifId' = nextNotifId + 1
         ELSE UNCHANGED <<entries, nextEntryId, notifications, nextNotifId>>
  /\ UNCHANGED <<users, removed, boot, client, reqs>>

updateEntryResponse(token, id, title, price, date) ==
  LET auth == protect(token) IN
  IF auth.status # 0 THEN Response(auth.status, auth.msg, {})
  ELSE IF InvalidPrice(price) THEN Response(400, "Invalid price value", {})
  ELSE IF ~ObjectIdIsValid(id) THEN Response(400, "Invalid entry ID", {})
  ELSE IF FindEntry(id, auth.user.id) = {}
    THEN Response(404, "Entry not found", {})
  ELSE
    LET entry == CHOOSE e \in FindEntry(id, auth.user.id) : TRUE IN
    IF BudgetExceeded(TotalExpenses(auth.user.id, entry.id), price.n,
                      users[auth.user.id].budgetLimit)
      THEN Response(400, "Budget limit exceeded", {})
    ELSE Response(200, "", {UpdatedEntry(entry, title, price.n, date)})

\* PUT /api/entries/:id
updateEntry(token, id, title, price, date) ==
  /\ Serving
  /\ LET r == updateEntryResponse(token, id, title, price, date) IN
       IF r.status = 200
         THEN /\ CanNotify
              /\ entries' = {e \in entries : e.id # id} \cup r.body
              /\ notifications' = notifications \cup
                   {NewNotification(token.id, title, "edit", id)}
              /\ nextNotifId' = nextNotifId + 1
         ELSE UNCHANGED <<entries, notifications, nextNotifId>>
  /\ UNCHANGED <<users, nextEntryId, removed, boot, client, reqs>>

deleteEntryResponse(token, id) ==
  LET auth == protect(token) IN
  IF auth.status # 0 THEN Response(auth.status, auth.msg, {})
  ELSE IF ~ObjectIdIsValid(id) THEN Response(400, "Invalid entry ID", {})
  ELSE IF FindEntry(id, auth.user.id) = {}
    THEN Response(404, "Entry not found", {})
  ELSE Response(200, "Entry deleted successfully", {})

\* DELETE /api/entries/:id
deleteEntry(token, id) ==
  /\ Serving
  /\ IF deleteEntryResponse(token, id).status = 200
       THEN LET entry == CHOOSE e \in FindEntry(id, token.id) : TRUE IN
            /\ CanNotify
            /\ notifications' = notifications \cup
                 {NewNotification(token.id, entry.title, "delete", id)}
            /\ nextNotifId' = nextNotifId + 1
            /\ entries' = {e \in entries : e.id # id}
            /\ removed' = removed \cup {<<entry.id, entry.userId>>}
       ELSE UNCHANGED <<notifications, nextNotifId, entries, removed>>
  /\ UNCHANGED <<users, nextEntryId, boot, client, reqs>>

\* the fallbacks of page and limit
DefaultPage == 1
DefaultLimit == 8

\* req.query.page and req.query.limit: missing, a string that starts with no
\* digit, a numeral
QueryLimits ==
  {[type |-> "undefined", n |-> 0], [type |-> "text", n |-> 0]}
  \cup {[type |-> "numeral", n |-> k] : k \in 0..MaxPage}

QueryPages == QueryLimits \cup {[type |-> "numeral", n |-> -1]}

\* parseInt(value)
ParseInt(raw) ==
  IF raw.type = "numeral" THEN [nan |-> FALSE, n |-> raw.n] ELSE NaN

\* parseInt(value) || fallback: NaN and 0 are falsy
OrDefault(num, fallback) == IF num.nan \/ num.n = 0 THEN fallback ELSE num.n

\* req.query.search, '' when missing; a title matches the regex of the
\* search string, case ignored
Searches == {"", "rent", "FOO", "zzz"}

TitleMatches(title, search) ==
  \/ search = "rent" /\ title = "rent"
  \/ search = "FOO" /\ title = "food"

\* req.query.dateFilter: '' when missing, or a 'YYYY-MM-DD' string
NoDate == 0
DateFilters == {NoDate, 20240229}

\* nextDay.setDate(nextDay.getDate() + 1), then toISOString().split('T')[0]
NextDay(date) ==
  IF Day(date) = DaysInMonth(Year(date), Month(date))
    THEN NewDate(Year(date), Month(date), 1)
    ELSE date + 1

SortBys ==
  {"price-high-low", "price-low-high", "date-new-old", "date-old-new", "all",
   "other"}

\* the order of documents the sort leaves equal: of the sorts on price
\* MongoDB promises no order among equal prices, and the order it gives may
\* differ from one query to the next
Ties == {"oldest first", "newest first"}

\* the query object: userId, the title regex, the date interval
MatchingEntries(uid, search, dateFilter) ==
  {e \in entries :
     /\ e.userId = uid
     /\ search # "" => TitleMatches(e.title, search)
     /\ dateFilter # NoDate =>
          e.date >= dateFilter /\ e.date < NextDay(dateFilter)}

\* a comes before b in find(query).sort(sort): by the sort key; documents of
\* equal date in index order, documents in no sort in natural order
ComesBefore(a, b, sortBy, ties) ==
  CASE sortBy = "price-high-low" /\ a.price # b.price -> a.price > b.price
    [] sortBy = "price-low-high" /\ a.price # b.price -> a.price < b.price
    [] sortBy \in {"price-high-low", "price-low-high"} ->
         IF ties = "oldest first" THEN a.id < b.id ELSE a.id > b.id
    [] sortBy = "date-new-old" /\ a.date # b.date -> a.date > b.date
    [] sortBy = "date-old-new" /\ a.date # b.date -> a.date < b.date
    [] OTHER -> a.id < b.id

RECURSIVE SortEntries(_, _, _)
SortEntries(S, sortBy, ties) ==
  IF S = {} THEN <<>>
  ELSE LET first == CHOOSE x \in S :
                      \A y \in S \ {x} : ComesBefore(x, y, sortBy, ties)
       IN <<first>> \o SortEntries(S \ {first}, sortBy, ties)

\* .skip(skip).limit(limit)
SkipLimit(list, skip, limit) ==
  SubSeq(list, skip + 1,
         IF Len(list) < skip + limit THEN Len(list) ELSE skip + limit)

\* Math.ceil(totalEntries / limit)
CeilDiv(a, b) == (a + b - 1) \div b

NoPage ==
  [entries |-> <<>>,
   pagination |-> [currentPage |-> 0, totalPages |-> 0, totalEntries |-> 0,
                   hasNextPage |-> FALSE, hasPrevPage |-> FALSE, limit |-> 0]]

\* getUserEntries with its query parameters; a negative skip is refused by
\* MongoDB and the error handler answers 500
getUserEntriesPageResponse(token, rawPage, rawLimit, search, dateFilter, sortBy, ties) ==
  LET auth == protect(token)
      page == OrDefault(ParseInt(rawPage), DefaultPage)
      limit == OrDefault(ParseInt(rawLimit), DefaultLimit)
      skip == (page - 1) * limit
  IN
  IF auth.status # 0 THEN Response(auth.status, auth.msg, NoPage)
  ELSE IF skip < 0 THEN Response(500, "", NoPage)
  ELSE
    LET matching == MatchingEntries(auth.user.id, search, dateFilter)
        totalEntries == Cardinality(matching)
        totalPages == CeilDiv(totalEntries, limit)
    IN Response(200, "",
         [entries |-> SkipLimit(SortEntries(matching, sortBy, ties), skip,
                                limit),
          pagination |-> [currentPage |-> page,
                          totalPages |-> totalPages,
                          totalEntries |-> totalEntries,
                          hasNextPage |-> page < totalPages,
                          hasPrevPage |-> page > 1,
                          limit |-> limit]])

\* GET /api/entries?page=&limit=&search=&dateFilter=&sortBy=
getUserEntriesPage(token, rawPage, rawLimit, search, dateFilter, sortBy, ties) ==
  /\ Serving
  /\ getUserEntriesPageResponse(token, rawPage, rawLimit, search, dateFilter,
                                sortBy, ties).status \in {200, 401, 500}
  /\ UNCHANGED vars

-----------------------------------------------------------------------------
(* Notification handlers *)

\* mutant: sort({ createdAt: 1 })
CreatedBefore(a, b) == a.id < b.id

\* the order of sort({ createdAt: -1 }): a comes first when it was created
\* later; notification ids are allocated in creation order
CreatedAfter(a, b) == a.id > b.id

\* .sort({ createdAt: -1 }) as the list the query returns
RECURSIVE SortNotifications(_)
SortNotifications(S) ==
  IF S = {} THEN <<>>
  ELSE LET first == CHOOSE x \in S : \A y \in S \ {x} : CreatedAfter(x, y)
       IN <<first>> \o SortNotifications(S \ {first})

\* .limit(n)
Limit(list, n) == SubSeq(list, 1, IF Len(list) < n THEN Len(list) ELSE n)

\* Notification.find({ userId }).sort({ createdAt: -1 }).limit(50)
LatestNotifications(uid) ==
  Limit(SortNotifications({n \in notifications : n.userId = uid}), NotifLimit)

\* body: the array of notification documents
getUserNotificationsResponse(token) ==
  LET auth == protect(token) IN
  IF auth.status # 0 THEN Response(auth.status, auth.msg, <<>>)
  ELSE Response(200, "", LatestNotifications(auth.user.id))

\* GET /api/notifications
\* mutant: the notifications that are returned are marked read
getUserNotificationsMarkingRead(token) ==
  /\ Serving
  /\ getUserNotificationsResponse(token).status \in {200, 401}
  /\ notifications' =
       {IF protect(token).status = 0 /\ n.userId = token.id
          THEN [n EXCEPT !.isRead = TRUE] ELSE n : n \in notifications}
  /\ UNCHANGED <<users, entries, nextEntryId, nextNotifId, removed, boot, client,
                 reqs>>

\* GET /api/notifications
getUserNotifications(token) ==
  /\ Serving
  /\ getUserNotificationsResponse(token).status \in {200, 401}
  /\ UNCHANGED vars

\* the filter of findOneAndUpdate({ _id: id, userId: req.user.id }, ...)
OwnNotification(n, id, uid) == n.id = id /\ n.userId = uid

\* mutant: the flag is flipped
MarkReadToggle(n) == [n EXCEPT !.isRead = ~@]

\* the update { isRead: true }
MarkRead(n) == [n EXCEPT !.isRead = TRUE]

markNotificationAsReadResponse(token, id) ==
  LET auth == protect(token) IN
  IF auth.status # 0 THEN Response(auth.status, auth.msg, {})
  ELSE
    LET found == {n \in notifications : OwnNotification(n, id, auth.user.id)} IN
    IF found = {} THEN Response(404, "Notification not found", {})
    ELSE Response(200, "Notification marked as read",
                  {MarkRead(n) : n \in found})

\* PUT /api/notifications/:id/read
markNotificationAsRead(token, id) ==
  /\ Serving
  /\ IF markNotificationAsReadResponse(token, id).status = 200
       THEN notifications' =
              {IF OwnNotification(n, id, token.id) THEN MarkRead(n) ELSE n :
                 n \in notifications}
       ELSE UNCHANGED notifications
  /\ UNCHANGED <<users, entries, nextEntryId, nextNotifId, removed, boot, client, reqs>>

\* mutant: the filter has no userId
UnreadOfAnyone(n, uid) == n.isRead = FALSE

\* the filter of updateMany({ userId: req.user.id, isRead: false }, ...)
UnreadOf(n, uid) == n.userId = uid /\ n.isRead = FALSE

\* body: updatedCount
markAllNotificationsAsReadResponse(token) ==
  LET auth == protect(token) IN
  IF auth.status # 0 THEN Response(auth.status, auth.msg, {})
  ELSE Response(200, "All notifications marked as read",
                {Cardinality({n \in notifications : UnreadOf(n, auth.user.id)})})

\* PUT /api/notifications/mark-all-read
markAllNotificationsAsRead(token) ==
  /\ Serving
  /\ IF markAllNotificationsAsReadResponse(token).status = 200
       THEN notifications' =
              {IF UnreadOf(n, token.id) THEN MarkRead(n) ELSE n :
                 n \in notifications}
       ELSE UNCHANGED notifications
  /\ UNCHANGED <<users, entries, nextEntryId, nextNotifId, removed, boot, client, reqs>>

\* body: unreadCount
getUnreadNotificationCountResponse(token) ==
  LET auth == protect(token) IN
  IF auth.status # 0 THEN Response(auth.status, auth.msg, {})
  ELSE Response(200, "",
                {Cardinality({n \in notifications : UnreadOf(n, auth.user.id)})})

\* GET /api/notifications/unread-count
getUnreadNotificationCount(token) ==
  /\ Serving
  /\ getUnreadNotificationCountResponse(token).status \in {200, 401}
  /\ UNCHANGED vars

-----------------------------------------------------------------------------
(* One request at a time *)

\* the values a handler can tell apart: a field the handler never reads
\* (protect rejected the request, or an earlier check already answered it)
\* is given one value only
Read(isRead, S) == IF isRead THEN S ELSE {CHOOSE x \in S : TRUE}

Admitted(token) == protect(token).status = 0

SignupNext ==
  \E email \in Emails, limit \in LimitInputs :
    signup(email, AnyPassword, AnySalt, limit)

\* a request to /api/profile carrying token t
ProfileRequest(t) ==
  \/ getProfile(t)
  \/ \E email \in Read(Admitted(t), EmailInputs),
        limit \in Read(Admitted(t), LimitInputs) :
       updateProfile(t, email, limit)

\* a GET request to /api/entries carrying token t
EntryReadRequest(t) ==
  \/ getUserEntries(t)
  \/ \E range \in Read(Admitted(t), Ranges), now \in Read(Admitted(t), Nows),
        tz \in Read(Admitted(t), TimeZones) :
       getBudgetAnalysis(t, range, now, tz)

\* a POST, PUT or DELETE request to /api/entries carrying token t
EntryWriteRequest(t) ==
  \/ \E price \in Read(Admitted(t), PriceInputs) :
       \E b \in Read(Admitted(t) /\ ~InvalidPrice(price), Bodies) :
         addEntry(t, b.title, price, b.date)
  \/ \E price \in Read(Admitted(t), PriceInputs) :
       \E id \in Read(Admitted(t) /\ ~InvalidPrice(price), EntryIdInputs) :
         \E b \in Read(Admitted(t) /\ ~InvalidPrice(price)
                         /\ FindEntry(id, t.id) # {}, Bodies) :
           updateEntry(t, id, b.title, price, b.date)
  \/ \E id \in Read(Admitted(t), EntryIdInputs) : deleteEntry(t, id)

\* a request to /api/notifications carrying token t
NotificationRequest(t) ==
  \/ getUserNotifications(t)
  \/ \E id \in Read(Admitted(t), NotifIdInputs) : markNotificationAsRead(t, id)
  \/ markAllNotificationsAsRead(t)
  \/ getUnreadNotificationCount(t)

\* a request to one of the routes behind protect, carrying token t
RequestWith(t) ==
  \/ ProfileRequest(t)
  \/ EntryReadRequest(t)
  \/ EntryWriteRequest(t)
  \/ NotificationRequest(t)

ProfileNext == \E t \in Tokens : ProfileRequest(t)

AuthNext == SignupNext \/ ProfileNext

EntryReadNext == \E t \in Tokens : EntryReadRequest(t)

EntryWriteNext == \E t \in Tokens : EntryWriteRequest(t)

EntryNext == EntryReadNext \/ EntryWriteNext

NotificationNext == \E t \in Tokens : NotificationRequest(t)

(* Spec: the auth, profile and entry routes, one request at a time, on a   *)
(* server that has booted.                                                 *)
Next == AuthNext \/ EntryNext

Spec == Booted /\ [][Next]_vars

(* SpecNotif: the notification routes as well *)
NextNotif == AuthNext \/ EntryNext \/ NotificationNext

SpecNotif == Booted /\ [][NextNotif]_vars

(* SpecRows: signup and the routes that write entries and notifications    *)
NextRows == SignupNext \/ EntryWriteNext \/ NotificationNext

SpecRows == Booted /\ [][NextRows]_vars

(* SpecAnalysis: the budget analysis on a database of two users and up to  *)
(* MaxAnalysed entries of price 1, dated at the ends of the months that    *)
(* bound the ranges; the first user's budgetLimit was set by updateProfile *)
(* after the entries were added.                                           *)
AnalysisDates ==
  {20230331, 20230401, 20231231, 20240131, 20240201, 20240229, 20240301,
   20240331}

AnalysisOwners == {"own", "shared"}

AnalysisEntry(dates, owners, date) ==
  LET rank == Cardinality({d \in dates : d <= date}) IN
  [id |-> rank,
   userId |-> IF owners = "shared" /\ rank % 2 = 0 THEN 2 ELSE 1,
   title |-> "rent", price |-> 1, date |-> date]

AnalysisInit ==
  \E dates \in SUBSET AnalysisDates, owners \in AnalysisOwners,
     limit \in 0..MaxAmount :
    /\ Cardinality(dates) <= MaxAnalysed
    /\ users = <<NewUser("a@x.com", Hash(AnyPassword, AnySalt), limit),
                 NewUser("b@x.com", Hash(AnyPassword, AnySalt), MaxAmount)>>
    /\ entries = {AnalysisEntry(dates, owners, d) : d \in dates}
    /\ nextEntryId = Cardinality(dates) + 1
    /\ notifications = {}
    /\ nextNotifId = 1
    /\ removed = {}
    /\ boot = [conn |-> "connected", wipe |-> "cleared"]
    /\ reqs = [s \in Slots |-> Idle]
    /\ client = ClientStart

NextAnalysis ==
  \E t \in Tokens, range \in Ranges, now \in Nows, tz \in TimeZones :
    getBudgetAnalysis(t, range, now, tz)

SpecAnalysis == AnalysisInit /\ [][NextAnalysis]_vars

(* SpecBudget: signup and the entry routes, one request at a time; no       *)
(* request changes a budgetLimit.                                           *)
NextBudget == SignupNext \/ EntryNext

SpecBudget == Booted /\ [][NextBudget]_vars

(* SpecProfile: signup and the profile routes                               *)
NextProfile ==
  \/ SignupNext
  \/ \E t \in Tokens : getProfile(t)
  \/ \E t \in Tokens, email \in EmailInputs, limit \in LimitInputs,
        firstName \in NameInputs, profileImageUrl \in ImageInputs :
       updateProfileBody(t, email, limit, firstName, profileImageUrl)

SpecProfile == Booted /\ [][NextProfile]_vars

(* SpecPages: the entry list, on a database left by k additions            *)
PagedPrices == {"equal", "distinct", "paired"}

PagedOwners == {"first", "alternate", "second"}

PagedEntry(prices, owners, sameDay, i) ==
  [id |-> i,
   userId |-> IF owners = "second" \/ (owners = "alternate" /\ i % 4 = 0)
                THEN 2 ELSE 1,
   title |-> IF i % 3 = 0 THEN "food" ELSE "rent",
   price |-> IF prices = "equal" THEN 1
             ELSE IF prices = "distinct" THEN i
             ELSE (i + 1) \div 2,
   date |-> IF sameDay \/ i % 2 = 0 THEN 20240229 ELSE 20240301]

PagesInit ==
  \E k \in 0..MaxPaged, prices \in PagedPrices, owners \in PagedOwners,
     sameDay \in BOOLEAN :
    /\ users = <<NewUser("a@x.com", Hash(AnyPassword, AnySalt),
                         MaxPaged * MaxPaged),
                 NewUser("b@x.com", Hash(AnyPassword, AnySalt),
                         MaxPaged * MaxPaged)>>
    /\ entries = {PagedEntry(prices, owners, sameDay, i) : i \in 1..k}
    /\ nextEntryId = k + 1
    /\ notifications = {}
    /\ nextNotifId = 1
    /\ removed = {}
    /\ boot = [conn |-> "connected", wipe |-> "cleared"]
    /\ reqs = [s \in Slots |-> Idle]
    /\ client = ClientStart

NextPages ==
  \E t \in Tokens, rawPage \in QueryPages, rawLimit \in QueryLimits,
     search \in Searches, dateFilter \in DateFilters, sortBy \in SortBys,
     ties \in Ties :
    getUserEntriesPage(t, rawPage, rawLimit, search, dateFilter, sortBy, ties)

SpecPages == PagesInit /\ [][NextPages]_vars

(* SpecLogin: signup with every password and salt, login, and the profile  *)
(* update that saves the user document again.                              *)
NextLogin ==
  \/ \E email \in Emails, password \in PasswordInputs, salt \in Salts,
        limit \in LimitInputs :
       signup(email, password, salt, limit)
  \/ \E email \in Emails, password \in PasswordInputs : login(email, password)
  \/ \E t \in Tokens, email \in EmailInputs, limit \in LimitInputs :
       updateProfile(t, email, limit)

SpecLogin == Booted /\ [][NextLogin]_vars

(* SpecList: the notification list on a database that has seen many entry  *)
(* mutations.  The state is the one left by k mutations, one request at a  *)
(* time since the last boot: entry j is added by notification 2j-1 and     *)
(* deleted by notification 2j.                                             *)
ListOwners == {"first", "second", "alternate"}

ListOwner(owners, j) ==
  IF owners = "first" THEN 1
  ELSE IF owners = "second" THEN 2
  ELSE 1 + (j % 2)

ListNotification(owners, someRead, i) ==
  [id |-> i, userId |-> ListOwner(owners, (i + 1) \div 2), message |-> "rent",
   type |-> IF i % 2 = 1 THEN "add" ELSE "delete",
   isRead |-> someRead /\ i % 3 = 0, about |-> (i + 1) \div 2]

ListInit ==
  \E k \in 0..MaxListed, owners \in ListOwners, someRead \in BOOLEAN :
    /\ users = <<NewUser("a@x.com", Hash(AnyPassword, AnySalt), MaxAmount),
                 NewUser("b@x.com", Hash(AnyPassword, AnySalt), MaxAmount)>>
    /\ notifications = {ListNotification(owners, someRead, i) : i \in 1..k}
    /\ nextNotifId = k + 1
    /\ entries = IF k % 2 = 0 THEN {}
                 ELSE {[id |-> (k + 1) \div 2,
                        userId |-> ListOwner(owners, (k + 1) \div 2),
                        title |-> "rent", price |-> 0, date |-> 20240229]}
    /\ nextEntryId = ((k + 1) \div 2) + 1
    /\ removed = {<<j, ListOwner(owners, j)>> : j \in 1..(k \div 2)}
    /\ boot = [conn |-> "connected", wipe |-> "cleared"]
    /\ reqs = [s \in Slots |-> Idle]
    /\ client = ClientStart

NextList ==
  \/ \E t \in Tokens : getUserNotifications(t)
  \/ \E t \in Tokens : markAllNotificationsAsRead(t)
  \/ \E t \in Tokens : getUnreadNotificationCount(t)

SpecList == ListInit /\ [][NextList]_vars

(* SpecBoot: signup and the routes that write entries and notifications,   *)
(* on a server process that is started again at any time                   *)
NextBoot ==
  \/ Restart
  \/ Connect
  \/ ConnectFail
  \/ WipeOk
  \/ WipeFail
  \/ SignupNext
  \/ EntryWriteNext

SpecBoot == Init /\ [][NextBoot]_vars

-----------------------------------------------------------------------------
(* Entry handlers, one await at a time.  A request that is answered before  *)
(* its first read of the entries collection (401, invalid price or id, 404) *)
(* never shares the database with another request and is covered by the     *)
(* handlers above; a request that gets further occupies a slot of reqs.     *)
(* User.findById is taken together with the step before it: no handler of   *)
(* SpecConc writes an existing user document.                               *)

Busy(s) == reqs[s].op # "idle"

\* requests in flight that have not written their notification yet
Pending == {s \in Slots : Busy(s) /\ reqs[s].pc # "delete"}

\* a new request is taken up by the first free slot, as long as every request
\* in flight can still be given a notification id
Accepts(s) ==
  /\ Serving
  /\ ~Busy(s)
  /\ s = CHOOSE f \in Slots : ~Busy(f)
  /\ nextNotifId + Cardinality(Pending) <= MaxConcNotifs

\* mutant: the write is dropped when it takes the owner over the limit
SaveEntryWithinBudget(ents, doc) ==
  IF SumPrices({e \in ents : e.userId = doc.userId /\ e.id # doc.id})
       + doc.price > users[doc.userId].budgetLimit
    THEN ents
    ELSE {e \in ents : e.id # doc.id} \cup {doc}

\* entry.save(): the document is inserted, or replaces the stored one
SaveEntry(ents, doc) == {e \in ents : e.id # doc.id} \cup {doc}

\* what save() writes for a loaded document: only the paths whose value
\* differs from the loaded one are sent to the database
ModifiedPaths(stored, loaded, title, price, date) ==
  [stored EXCEPT
     !.title = IF title # loaded.title THEN title ELSE @,
     !.price = IF price # loaded.price THEN price ELSE @,
     !.date = IF date # loaded.date THEN date ELSE @]

\* addEntry: protect, the price check, User.findById
addEntryStart(s, token, title, price, date) ==
  /\ Accepts(s)
  /\ protect(token).status = 0
  /\ ~InvalidPrice(price)
  /\ reqs' = [reqs EXCEPT ![s] =
                [Idle EXCEPT !.op = "add", !.pc = "aggregate",
                             !.user = token.id, !.title = title,
                             !.price = price.n, !.date = date,
                             !.limit = users[token.id].budgetLimit]]
  /\ UNCHANGED <<db, boot, client>>

\* addEntry: Entry.aggregate and the budget check
addEntryAggregate(s) ==
  /\ Serving
  /\ reqs[s].op = "add" /\ reqs[s].pc = "aggregate"
  /\ reqs' = [reqs EXCEPT ![s] =
                IF BudgetExceeded(TotalExpenses(reqs[s].user, 0),
                                  reqs[s].price, reqs[s].limit)
                  THEN Idle
                  ELSE [@ EXCEPT !.pc = "save"]]
  /\ UNCHANGED <<db, boot, client>>

\* addEntry: entry.save()
addEntrySave(s) ==
  /\ Serving
  /\ reqs[s].op = "add" /\ reqs[s].pc = "save"
  /\ entries' = SaveEntry(entries, NewEntry(reqs[s].user, reqs[s].title,
                                            reqs[s].price, reqs[s].date))
  /\ nextEntryId' = nextEntryId + 1
  /\ reqs' = [reqs EXCEPT ![s].pc = "notify", ![s].id = nextEntryId]
  /\ UNCHANGED <<users, notifications, nextNotifId, removed, boot, client>>

\* addEntry: notification.save() and the 201 response
addEntryNotify(s) ==
  /\ Serving
  /\ reqs[s].op = "add" /\ reqs[s].pc = "notify"
  /\ notifications' = notifications \cup
       {NewNotification(reqs[s].user, reqs[s].title, "add", reqs[s].id)}
  /\ nextNotifId' = nextNotifId + 1
  /\ reqs' = [reqs EXCEPT ![s] = Idle]
  /\ UNCHANGED <<users, entries, nextEntryId, removed, boot, client>>

\* updateEntry: protect, the price and id checks, Entry.findOne, User.findById
updateEntryStart(s, token, id, title, price, date) ==
  /\ Accepts(s)
  /\ protect(token).status = 0
  /\ ~InvalidPrice(price)
  /\ ObjectIdIsValid(id)
  /\ FindEntry(id, token.id) # {}
  /\ reqs' = [reqs EXCEPT ![s] =
                [Idle EXCEPT !.op = "update", !.pc = "aggregate",
                             !.user = token.id, !.id = id, !.title = title,
                             !.price = price.n, !.date = date,
                             !.limit = users[token.id].budgetLimit,
                             !.doc = CHOOSE e \in FindEntry(id, token.id) : TRUE]]
  /\ UNCHANGED <<db, boot, client>>

\* updateEntry: Entry.aggregate without the entry, and the budget check
updateEntryAggregate(s) ==
  /\ Serving
  /\ reqs[s].op = "update" /\ reqs[s].pc = "aggregate"
  /\ reqs' = [reqs EXCEPT ![s] =
                IF BudgetExceeded(TotalExpenses(reqs[s].user, reqs[s].doc.id),
                                  reqs[s].price, reqs[s].limit)
                  THEN Idle
                  ELSE [@ EXCEPT !.pc = "save"]]
  /\ UNCHANGED <<db, boot, client>>

\* updateEntry: entry.save(); it rejects when the document is no longer
\* stored, and the request ends with a 500
updateEntrySave(s) ==
  /\ Serving
  /\ reqs[s].op = "update" /\ reqs[s].pc = "save"
  /\ LET stored == {e \in entries : e.id = reqs[s].doc.id} IN
       IF stored = {}
         THEN /\ reqs' = [reqs EXCEPT ![s] = Idle]
              /\ UNCHANGED entries
         ELSE /\ entries' = SaveEntry(entries,
                   ModifiedPaths(CHOOSE e \in stored : TRUE, reqs[s].doc,
                                 reqs[s].title, reqs[s].price, reqs[s].date))
              /\ reqs' = [reqs EXCEPT ![s].pc = "notify"]
  /\ UNCHANGED <<users, notifications, nextEntryId, nextNotifId, removed, boot, client>>

\* updateEntry: notification.save() and the 200 response
updateEntryNotify(s) ==
  /\ Serving
  /\ reqs[s].op = "update" /\ reqs[s].pc = "notify"
  /\ notifications' = notifications \cup
       {NewNotification(reqs[s].user, reqs[s].title, "edit", reqs[s].id)}
  /\ nextNotifId' = nextNotifId + 1
  /\ reqs' = [reqs EXCEPT ![s] = Idle]
  /\ UNCHANGED <<users, entries, nextEntryId, removed, boot, client>>

\* deleteEntry: protect, the id check, Entry.findOne
deleteEntryStart(s, token, id) ==
  /\ Accepts(s)
  /\ protect(token).status = 0
  /\ ObjectIdIsValid(id)
  /\ FindEntry(id, token.id) # {}
  /\ reqs' = [reqs EXCEPT ![s] =
                [Idle EXCEPT !.op = "delete", !.pc = "notify",
                             !.user = token.id, !.id = id,
                             !.title = (CHOOSE e \in FindEntry(id, token.id) : TRUE).title]]
  /\ UNCHANGED <<db, boot, client>>

\* deleteEntry: notification.save()
deleteEntryNotify(s) ==
  /\ Serving
  /\ reqs[s].op = "delete" /\ reqs[s].pc = "notify"
  /\ notifications' = notifications \cup
       {NewNotification(reqs[s].user, reqs[s].title, "delete", reqs[s].id)}
  /\ nextNotifId' = nextNotifId + 1
  /\ reqs' = [reqs EXCEPT ![s].pc = "delete"]
  /\ UNCHANGED <<users, entries, nextEntryId, removed, boot, client>>

\* deleteEntry: Entry.findByIdAndDelete(id) and the 200 response
deleteEntryDelete(s) ==
  /\ Serving
  /\ reqs[s].op = "delete" /\ reqs[s].pc = "delete"
  /\ entries' = {e \in entries : e.id # reqs[s].id}
  /\ removed' = removed \cup
       {<<e.id, e.userId>> : e \in {x \in entries : x.id = reqs[s].id}}
  /\ reqs' = [reqs EXCEPT ![s] = Idle]
  /\ UNCHANGED <<users, notifications, nextEntryId, nextNotifId, boot, client>>

(* SpecConc: signup and the entry mutations, interleaved at their awaits.   *)
(* What is explored is the order of the steps, so every request body       *)
(* carries the same title and date and one account signs up: the requests *)
(* that race are requests of one user.  The prices and the limit vary.     *)
ConcBodies == {CHOOSE b \in Bodies : TRUE}
ConcEmails == {CHOOSE e \in Emails : TRUE}

NextConc ==
  \/ \E email \in ConcEmails, limit \in LimitInputs :
       signup(email, AnyPassword, AnySalt, limit)
  \/ \E s \in Slots, t \in Tokens, b \in ConcBodies, p \in PriceInputs :
       addEntryStart(s, t, b.title, p, b.date)
  \/ \E s \in Slots : addEntryAggregate(s)
  \/ \E s \in Slots : addEntrySave(s)
  \/ \E s \in Slots : addEntryNotify(s)
  \/ \E s \in Slots, t \in Tokens, id \in 1..MaxConcNotifs, b \in ConcBodies,
        p \in PriceInputs :
       updateEntryStart(s, t, id, b.title, p, b.date)
  \/ \E s \in Slots : updateEntryAggregate(s)
  \/ \E s \in Slots : updateEntrySave(s)
  \/ \E s \in Slots : updateEntryNotify(s)
  \/ \E s \in Slots, t \in Tokens, id \in 1..MaxConcNotifs :
       deleteEntryStart(s, t, id)
  \/ \E s \in Slots : deleteEntryNotify(s)
  \/ \E s \in Slots : deleteEntryDelete(s)

SpecConc == Booted /\ [][NextConc]_vars

(* SpecRead: the five read routes between the entry writes of one account  *)
(* and restarts of the server.                                             *)
ReadRequest(t) ==
  \/ getProfile(t)
  \/ EntryReadRequest(t)
  \/ getUserNotifications(t)
  \/ getUnreadNotificationCount(t)

NextRead ==
  \/ Restart
  \/ Connect
  \/ WipeOk
  \/ \E email \in ConcEmails, limit \in LimitInputs :
       signup(email, AnyPassword, AnySalt, limit)
  \/ EntryWriteNext
  \/ \E t \in Tokens : ReadRequest(t)

SpecRead == Booted /\ [][NextRead]_vars

-----------------------------------------------------------------------------
(* SpecAuth: signup and updateProfile interleaved at their awaits.  Each    *)
(* handler reads the users collection (findOne by email) and writes it in   *)
(* a later step (save); the unique index on email is enforced by the        *)
(* database at the write.  A request that ends at its read (401, 400, a     *)
(* budgetLimit the schema rejects) is covered by the handlers above.        *)

\* the unique index on users.email: a write of email for document id is
\* rejected (E11000) when another document holds that email
DuplicateKey(email, id) ==
  \E j \in DOMAIN users : j # id /\ users[j].email = email

\* a new request is taken up by the first free slot
AcceptsAuth(s) ==
  /\ Serving
  /\ ~Busy(s)
  /\ s = CHOOSE f \in Slots : ~Busy(f)

\* signup: User.findOne({ email }) found nothing
signupStart(s, email, budgetLimit) ==
  /\ AcceptsAuth(s)
  /\ ~EmailTaken(email)
  /\ ValidBudgetLimit(budgetLimit)
  /\ reqs' = [reqs EXCEPT ![s] =
                [Idle EXCEPT !.op = "signup", !.pc = "save",
                             !.email = email, !.limit = budgetLimit.n]]
  /\ UNCHANGED <<db, boot, client>>

\* the answer of a signup whose user.save() runs now: the insert is rejected
\* by the unique index, the error reaches Express' default error handler
signupSaveResponse(s) ==
  IF DuplicateKey(reqs[s].email, 0)
    THEN Response(500, "E11000 duplicate key error", {})
    ELSE Response(201, "User created successfully",
                  {[token |-> TokenOf(Len(users) + 1),
                    user |-> Profile(Len(users) + 1,
                                     [email |-> reqs[s].email,
                                      budgetLimit |-> reqs[s].limit,
                                      role |-> "user"])]})

\* signup: user.save()
signupSave(s) ==
  /\ Serving
  /\ reqs[s].op = "signup" /\ reqs[s].pc = "save"
  /\ IF signupSaveResponse(s).status = 201
       THEN users' = Append(users, NewUser(reqs[s].email,
                                           Hash(AnyPassword, AnySalt),
                                           reqs[s].limit))
       ELSE UNCHANGED users
  /\ reqs' = [reqs EXCEPT ![s] = Idle]
  /\ UNCHANGED <<entries, notifications, nextEntryId, nextNotifId, removed,
                 boot, client>>

\* updateProfile: protect, User.findById, User.findOne({ email }) when the
\* email differs from the loaded one, the assignments to the loaded document
updateProfileStart(s, token, email, budgetLimit) ==
  /\ AcceptsAuth(s)
  /\ protect(token).status = 0
  /\ LET user == users[token.id]
         changesEmail == email # Absent /\ email # user.email
         changesLimit == /\ budgetLimit.type = "number"
                         /\ budgetLimit.n # user.budgetLimit
     IN
     /\ changesEmail => ~EmailTaken(email)
     /\ changesLimit => budgetLimit.n >= 0
     /\ reqs' = [reqs EXCEPT ![s] =
                   [Idle EXCEPT !.op = "profile", !.pc = "save",
                                !.user = token.id,
                                !.email = IF changesEmail THEN email
                                          ELSE Absent,
                                !.setLimit = changesLimit,
                                !.limit = IF changesLimit THEN budgetLimit.n
                                          ELSE 0]]
  /\ UNCHANGED <<db, boot, client>>

\* what user.save() writes for the loaded document: the modified paths
ModifiedUser(stored, email, setLimit, limit) ==
  [stored EXCEPT
     !.email = IF email # Absent THEN email ELSE @,
     !.budgetLimit = IF setLimit THEN limit ELSE @]

\* the answer of an updateProfile whose user.save() runs now
updateProfileSaveResponse(s) ==
  IF reqs[s].email # Absent /\ DuplicateKey(reqs[s].email, reqs[s].user)
    THEN Response(500, "E11000 duplicate key error", {})
    ELSE Response(200, "",
                  {Profile(reqs[s].user,
                           ModifiedUser(users[reqs[s].user], reqs[s].email,
                                        reqs[s].setLimit, reqs[s].limit))})

\* updateProfile: user.save()
updateProfileSave(s) ==
  /\ Serving
  /\ reqs[s].op = "profile" /\ reqs[s].pc = "save"
  /\ IF updateProfileSaveResponse(s).status = 200
       THEN users' = [users EXCEPT ![reqs[s].user] =
                        ModifiedUser(@, reqs[s].email, reqs[s].setLimit,
                                     reqs[s].limit)]
       ELSE UNCHANGED users
  /\ reqs' = [reqs EXCEPT ![s] = Idle]
  /\ UNCHANGED <<entries, notifications, nextEntryId, nextNotifId, removed,
                 boot, client>>

NextAuth ==
  \/ \E s \in Slots, email \in Emails, limit \in LimitInputs :
       signupStart(s, email, limit)
  \/ \E s \in Slots : signupSave(s)
  \/ \E s \in Slots, t \in Tokens, email \in EmailInputs,
        limit \in LimitInputs :
       updateProfileStart(s, t, email, limit)
  \/ \E s \in Slots : updateProfileSave(s)

SpecAuth == Booted /\ [][NextAuth]_vars

-----------------------------------------------------------------------------
(* SpecClient: the frontend.  client.local and client.session are the two   *)
(* storages, client.token, client.user and client.isLoading the state of    *)
(* AuthProvider.  checkAuth and login are async: each await is a step of    *)
(* its own, and client.checkAuth / client.login hold the call in flight     *)
(* with the token its getProfile request was sent with.  The server is      *)
(* seen through its answers: login resolves with a fresh token or rejects,  *)
(* getProfile resolves with the profile of the account the sent token       *)
(* belongs to, or rejects.                                                  *)

\* services/api.ts getAuthToken
getAuthToken(c) ==
  IF c.local.token # NullToken THEN c.local.token ELSE c.session.token

\* mutant: a token is enough
ProtectedRouteTokenOnly(c) ==
  IF c.isLoading THEN "loading"
  ELSE IF c.token = NullToken THEN "/login"
  ELSE "page"

\* App.tsx ProtectedRoute: the loading screen, <Navigate to="/login">, or the
\* page
ProtectedRoute(c) ==
  IF c.isLoading THEN "loading"
  ELSE IF c.token = NullToken \/ c.user = NullUser THEN "/login"
  ELSE "page"

\* App.tsx PublicRoute: the loading screen, <Navigate to="/dashboard">, or
\* the page
PublicRoute(c) ==
  IF c.isLoading THEN "loading"
  ELSE IF c.token # NullToken /\ c.user # NullUser THEN "/dashboard"
  ELSE "page"

\* the profile getProfile resolves with for a request sent with token
ProfileOf(token, budgetLimit) ==
  [email |-> token.email, budgetLimit |-> budgetLimit]

ClientStep(c) ==
  /\ client' = c
  /\ UNCHANGED <<db, boot, reqs>>

\* the page is loaded again: React state starts over, a call in flight is
\* gone, and checkAuth runs up to its await of getProfile
Reload ==
  LET restarted == /\ client.local.serverStartTime # 0
                   /\ client.local.storedServerStartTime # 0
                   /\ client.local.serverStartTime
                        # client.local.storedServerStartTime
      storedToken == IF client.local.token # NullToken
                       THEN client.local.token ELSE client.session.token
      rememberMe == client.local.rememberMe = "true"
      moves == ~rememberMe /\ client.local.token # NullToken
      fresh == [client EXCEPT !.token = NullToken, !.user = NullUser,
                              !.isLoading = TRUE,
                              !.checkAuth = ClientStart.checkAuth,
                              !.login = ClientStart.login]
  IN
  /\ client' =
       IF restarted
         THEN [fresh EXCEPT !.local.token = NullToken,
                            !.local.rememberMe = "",
                            !.local.storedServerStartTime = 0,
                            !.session.token = NullToken,
                            !.isLoading = FALSE]
       ELSE IF storedToken # NullToken
         THEN [fresh EXCEPT
                 !.token = storedToken,
                 !.session.token = IF moves THEN storedToken ELSE @,
                 !.local.token = IF moves THEN NullToken ELSE @,
                 !.checkAuth = [pc |-> "profile", sent |-> storedToken]]
       ELSE [fresh EXCEPT !.isLoading = FALSE]
  /\ UNCHANGED <<db, boot, reqs>>

\* checkAuth: getProfile resolves
checkAuthProfile(budgetLimit) ==
  /\ client.checkAuth.pc = "profile"
  /\ ClientStep([client EXCEPT
                   !.user = ProfileOf(client.checkAuth.sent, budgetLimit),
                   !.isLoading = FALSE,
                   !.checkAuth = ClientStart.checkAuth])

\* checkAuth: getProfile rejects; the error is logged
checkAuthProfileFails ==
  /\ client.checkAuth.pc = "profile"
  /\ ClientStep([client EXCEPT !.isLoading = FALSE,
                               !.checkAuth = ClientStart.checkAuth])

\* the 3 s timer set on mount
LoadingTimeout ==
  /\ client.isLoading
  /\ ClientStep([client EXCEPT !.isLoading = FALSE])

\* the Login page calls login(email, password, rememberMe)
clientLogin(email, rememberMe) ==
  /\ PublicRoute(client) = "page"
  /\ client.login.pc = "idle"
  /\ client.issued < MaxLogins
  /\ ClientStep([client EXCEPT
                   !.login = [ClientStart.login EXCEPT
                                !.pc = "login", !.email = email,
                                !.rememberMe = rememberMe]])

\* login: authAPI.login rejects
clientLoginRejected ==
  /\ client.login.pc = "login"
  /\ ClientStep([client EXCEPT !.login = ClientStart.login])

\* login: the storage writes after authAPI.login resolved
StoreToken(c, token, rememberMe) ==
  IF rememberMe
    THEN [c EXCEPT !.local.token = token, !.local.rememberMe = "true"]
    ELSE [c EXCEPT !.session.token = token, !.local.rememberMe = ""]

\* login: authAPI.login resolves with a fresh token; the token is stored,
\* setToken, and getProfile is sent with getAuthToken()
clientLoginResolved ==
  /\ client.login.pc = "login"
  /\ LET token == [n |-> client.issued + 1, email |-> client.login.email]
         stored == StoreToken(client, token, client.login.rememberMe)
     IN ClientStep([stored EXCEPT
                      !.token = token,
                      !.issued = @ + 1,
                      !.login = [@ EXCEPT !.pc = "profile",
                                          !.token = token,
                                          !.sent = getAuthToken(stored)]])

\* login: getProfile resolves; setUser, the two start times, login returns
clientLoginProfile(budgetLimit) ==
  /\ client.login.pc = "profile"
  /\ ClientStep([client EXCEPT
                   !.user = ProfileOf(client.login.sent, budgetLimit),
                   !.local.serverStartTime = client.login.token.n,
                   !.local.storedServerStartTime = client.login.token.n,
                   !.login = ClientStart.login])

\* login: getProfile rejects; login throws
clientLoginProfileFails ==
  /\ client.login.pc = "profile"
  /\ ClientStep([client EXCEPT !.login = ClientStart.login])

\* mutant: the session token is left
LoggedOutKeepingSession(c) ==
  [c EXCEPT !.local = ClientStart.local,
            !.token = NullToken, !.user = NullUser, !.isLoading = FALSE]

\* the storage and state logout() leaves
LoggedOut(c) ==
  [c EXCEPT !.local = ClientStart.local,
            !.session.token = NullToken,
            !.token = NullToken, !.user = NullUser, !.isLoading = FALSE]

\* logout(), offered by the pages behind ProtectedRoute
logout ==
  /\ ProtectedRoute(client) = "page"
  /\ client' = LoggedOut(client)
  /\ UNCHANGED <<db, boot, reqs>>

\* updateUser(userData) after a profile update
updateUser(budgetLimit) ==
  /\ client.user # NullUser
  /\ ClientStep([client EXCEPT !.user.budgetLimit = budgetLimit])

NextClient ==
  \/ Reload
  \/ \E budgetLimit \in 0..MaxAmount : checkAuthProfile(budgetLimit)
  \/ checkAuthProfileFails
  \/ LoadingTimeout
  \/ \E email \in Emails, rememberMe \in BOOLEAN : clientLogin(email, rememberMe)
  \/ clientLoginRejected
  \/ clientLoginResolved
  \/ \E budgetLimit \in 0..MaxAmount : clientLoginProfile(budgetLimit)
  \/ clientLoginProfileFails
  \/ logout
  \/ \E budgetLimit \in 0..MaxAmount : updateUser(budgetLimit)

SpecClient == Booted /\ [][NextClient]_vars

\* the timer set on mount fires unless the page is loaded again first
SpecClientLive == SpecClient /\ WF_vars(LoadingTimeout)

\* makeAuthRequest on a 401 response: both stored tokens are removed before
\* the error is thrown
ClearedTokens(c) ==
  [c EXCEPT !.local.token = NullToken, !.session.token = NullToken]

\* a request of a rendered protected page (entries, notifications, analysis,
\* profile) is answered 401; the caller catches the error
makeAuthRequest401 ==
  /\ ProtectedRoute(client) = "page"
  /\ client' = ClearedTokens(client)
  /\ UNCHANGED <<db, boot, reqs>>

\* checkAuth: getProfile is answered 401
checkAuthProfile401 ==
  /\ client.checkAuth.pc = "profile"
  /\ client' = ClearedTokens([client EXCEPT
                                !.isLoading = FALSE,
                                !.checkAuth = ClientStart.checkAuth])
  /\ UNCHANGED <<db, boot, reqs>>

\* login: getProfile is answered 401; login throws
clientLoginProfile401 ==
  /\ client.login.pc = "profile"
  /\ client' = ClearedTokens([client EXCEPT !.login = ClientStart.login])
  /\ UNCHANGED <<db, boot, reqs>>

NextSession ==
  \/ NextClient
  \/ makeAuthRequest401
  \/ checkAuthProfile401
  \/ clientLoginProfile401

SpecSession == Booted /\ [][NextSession]_vars

(* SpecView: the Analysis page of a user who is logged in                  *)

\* the effect on [rangeFilter, analysisCache], up to its await: data of a
\* cached range is shown, any other range is requested
loadData(a) ==
  IF a.rangeFilter \in a.analysisCache
    THEN [a EXCEPT !.budgetAnalysis = a.rangeFilter, !.loading = FALSE]
    ELSE [a EXCEPT !.inFlight[a.rangeFilter] = @ + 1, !.fetches = @ + 1]

\* the Analysis page is opened: the component mounts and its effect runs
mountAnalysis ==
  /\ ProtectedRoute(client) = "page"
  /\ ~client.analysis.mounted
  /\ client' = [client EXCEPT
                  !.analysis = loadData([NoAnalysisPage EXCEPT
                                           !.mounted = TRUE])]
  /\ UNCHANGED <<db, boot, reqs>>

\* the user leaves the page: its state is gone, late responses change nothing
unmountAnalysis ==
  /\ client.analysis.mounted
  /\ client' = [client EXCEPT !.analysis = NoAnalysisPage]
  /\ UNCHANGED <<db, boot, reqs>>

\* onRangeChange={setRangeFilter}: another range is chosen, the effect runs
selectRange(range) ==
  /\ client.analysis.mounted
  /\ range # client.analysis.rangeFilter
  /\ client.analysis.changes < MaxChanges
  /\ client' = [client EXCEPT
                  !.analysis = loadData([@ EXCEPT !.rangeFilter = range,
                                                  !.changes = @ + 1])]
  /\ UNCHANGED <<db, boot, reqs>>

\* loadData after its await for range: the data is shown and cached; the new
\* cache object runs the effect again for the range selected now
analysisResolves(range) ==
  /\ client.analysis.mounted
  /\ client.analysis.inFlight[range] > 0
  /\ client' = [client EXCEPT
                  !.analysis =
                     loadData([@ EXCEPT
                                 !.inFlight[range] = @ - 1,
                                 !.budgetAnalysis = range,
                                 !.analysisCache = @ \cup {range},
                                 !.settled[range] = "resolved",
                                 !.loading = FALSE])]
  /\ UNCHANGED <<db, boot, reqs>>

\* loadData's catch for range: the chart and budgetAnalysis are emptied
analysisRejects(range) ==
  /\ client.analysis.mounted
  /\ client.analysis.inFlight[range] > 0
  /\ client' = [client EXCEPT
                  !.analysis = [@ EXCEPT !.inFlight[range] = @ - 1,
                                         !.budgetAnalysis = "null",
                                         !.settled[range] = "rejected",
                                         !.loading = FALSE]]
  /\ UNCHANGED <<db, boot, reqs>>

\* a user who logged in without remember-me and whose profile was loaded
ViewInit ==
  /\ users = <<NewUser("a@x.com", Hash(AnyPassword, AnySalt), MaxAmount)>>
  /\ entries = {}
  /\ notifications = {}
  /\ nextEntryId = 1
  /\ nextNotifId = 1
  /\ removed = {}
  /\ boot = [conn |-> "connected", wipe |-> "cleared"]
  /\ reqs = [s \in Slots |-> Idle]
  /\ client = [ClientStart EXCEPT
                 !.session.token = [n |-> 1, email |-> "a@x.com"],
                 !.token = [n |-> 1, email |-> "a@x.com"],
                 !.user = [email |-> "a@x.com", budgetLimit |-> MaxAmount],
                 !.local.serverStartTime = 1,
                 !.local.storedServerStartTime = 1,
                 !.issued = 1]

NextView ==
  \/ mountAnalysis
  \/ unmountAnalysis
  \/ \E range \in PageRanges : selectRange(range)
  \/ \E range \in PageRanges : analysisResolves(range)
  \/ \E range \in PageRanges : analysisRejects(range)

SpecView == ViewInit /\ [][NextView]_vars

-----------------------------------------------------------------------------
(* Properties *)

ValidPrices == {p \in PriceInputs : ~p.nan /\ p.n >= 0}

\* the sum of the prices of the entries a user owns
OwnTotal(u) == SumPrices({e \in entries : e.userId = u})

\* the sum of the prices of the entries a user owns, one entry left out
OthersTotal(u, e) == SumPrices({x \in entries : x.userId = u /\ x # e})

\* this step adds exactly one notification: unread, owned by uid, of the type
OneNewNotification(uid, type) ==
  \E n \in notifications' :
    /\ n \notin notifications
    /\ notifications' = notifications \cup {n}
    /\ n.userId = uid /\ n.type = type /\ n.isRead = FALSE

C1_Response ==
  \A u \in DOMAIN users, b \in Bodies, p \in ValidPrices :
    LET r == addEntryResponse(TokenOf(u), b.title, p, b.date) IN
    IF OwnTotal(u) + p.n > users[u].budgetLimit
      THEN r.status = 400 /\ r.msg = "Budget limit exceeded"
      ELSE /\ r.status = 201
           /\ r.body # {}
           /\ \A e \in r.body : e.price = p.n /\ e.userId = u

C1_Effect ==
  (vars' # vars) =>
  \A u \in DOMAIN users, b \in Bodies, p \in ValidPrices :
    addEntry(TokenOf(u), b.title, p, b.date) =>
      IF OwnTotal(u) + p.n > users[u].budgetLimit
        THEN entries' = entries /\ notifications' = notifications
        ELSE \E e \in entries' :
               /\ e \notin entries
               /\ entries' = entries \cup {e}
               /\ e.price = p.n /\ e.userId = u /\ e.title = b.title

\* C1: addEntry answers 400 'Budget limit exceeded' and writes nothing when
\* the requester's total plus the price is above budgetLimit; otherwise
\* (equality included) it creates the entry with that price for the requester.
C1_AddEntryBudgetCheck == []C1_Response /\ [][C1_Effect]_vars

\* a user holds two entries whose total is exactly the limit, and one more
\* unit would be refused
C1_Witness ==
  \E u \in DOMAIN users :
    /\ Cardinality({e \in entries : e.userId = u}) = 2
    /\ OwnTotal(u) = users[u].budgetLimit
    /\ OwnTotal(u) >= 1
    /\ addEntryResponse(TokenOf(u), "rent", [nan |-> FALSE, n |-> 1], 1).msg
         = "Budget limit exceeded"

C2_Response ==
  \A u \in DOMAIN users, b \in Bodies, p \in ValidPrices :
    \A e \in {x \in entries : x.userId = u} :
      LET r == updateEntryResponse(TokenOf(u), e.id, b.title, p, b.date) IN
      /\ (r.status = 400 /\ r.msg = "Budget limit exceeded")
           <=> (OthersTotal(u, e) + p.n > users[u].budgetLimit)
      /\ (p.n = e.price /\ OwnTotal(u) <= users[u].budgetLimit)
           => r.status = 200

C2_Effect ==
  (vars' # vars) =>
  \A u \in DOMAIN users, b \in Bodies, p \in ValidPrices :
    \A e \in {x \in entries : x.userId = u} :
      (/\ updateEntry(TokenOf(u), e.id, b.title, p, b.date)
       /\ OthersTotal(u, e) + p.n > users[u].budgetLimit)
        => entries' = entries /\ notifications' = notifications

\* C2: updateEntry is refused with 400 'Budget limit exceeded' exactly when
\* the owner's other entries plus the new price are above budgetLimit; a
\* refused update leaves the entry and the notifications as they were; and
\* re-saving an unchanged price is accepted while the total is within the limit.
C2_UpdateEntryBudgetCheck == []C2_Response /\ [][C2_Effect]_vars

\* a user holds two entries at the limit: raising one of them is refused,
\* re-saving it is accepted
C2_Witness ==
  \E u \in DOMAIN users : \E e \in entries :
    /\ e.userId = u
    /\ OthersTotal(u, e) >= 1
    /\ OwnTotal(u) = users[u].budgetLimit
    /\ updateEntryResponse(TokenOf(u), e.id, e.title,
                           [nan |-> FALSE, n |-> e.price], e.date).status = 200
    /\ updateEntryResponse(TokenOf(u), e.id, e.title,
                           [nan |-> FALSE, n |-> MaxAmount], e.date).status = 400

Ceiling == \A u \in DOMAIN users : OwnTotal(u) <= users[u].budgetLimit

SetsLimitBelowTotal ==
  \E u \in DOMAIN users :
    /\ users'[u].budgetLimit # users[u].budgetLimit
    /\ users'[u].budgetLimit < OwnTotal(u)

C7_Effect ==
  (vars' # vars /\ users' = users) =>
    /\ \A t \in Tokens, b \in Bodies, p \in PriceInputs :
         addEntry(t, b.title, p, b.date) =>
           IF addEntryResponse(t, b.title, p, b.date).status = 201
             THEN OneNewNotification(t.id, "add")
             ELSE notifications' = notifications
    /\ \A t \in Tokens, id \in EntryIdInputs, b \in Bodies, p \in PriceInputs :
         updateEntry(t, id, b.title, p, b.date) =>
           IF updateEntryResponse(t, id, b.title, p, b.date).status = 200
             THEN OneNewNotification(t.id, "edit")
             ELSE notifications' = notifications
    /\ \A t \in Tokens, id \in EntryIdInputs :
         deleteEntry(t, id) =>
           IF deleteEntryResponse(t, id).status = 200
             THEN OneNewNotification(t.id, "delete")
             ELSE notifications' = notifications

\* C7: a successful addEntry / updateEntry / deleteEntry creates exactly one
\* notification, unread, for the requester, of type add / edit / delete; a
\* refused request creates none.
C7_OneNotificationPerMutation == [][C7_Effect]_vars

\* an entry was added and deleted: both notifications are there, unread
C7_Witness ==
  /\ \E n \in notifications : n.type = "add" /\ ~n.isRead
  /\ \E n \in notifications : n.type = "delete" /\ ~n.isRead
  /\ removed # {}

\* a token protect has to refuse: missing, badly signed, expired, or naming a
\* user id that is not in the users collection
Rejected(t) ==
  ~t.present \/ ~t.signed \/ t.expired \/ t.id \notin DOMAIN users

C5_Responses ==
  \A t \in Tokens :
    IF Rejected(t)
      THEN /\ protect(t).status = 401
           /\ getProfileResponse(t).status = 401
           /\ \A email \in EmailInputs, limit \in LimitInputs :
                updateProfileResponse(t, email, limit).status = 401
           /\ getUserEntriesResponse(t).status = 401
           /\ \A range \in Ranges, now \in Nows, tz \in TimeZones :
                getBudgetAnalysisResponse(t, range, now, tz).status = 401
           /\ \A b \in Bodies, p \in PriceInputs :
                addEntryResponse(t, b.title, p, b.date).status = 401
           /\ \A id \in EntryIdInputs, b \in Bodies, p \in PriceInputs :
                updateEntryResponse(t, id, b.title, p, b.date).status = 401
           /\ \A id \in EntryIdInputs : deleteEntryResponse(t, id).status = 401
           /\ getUserNotificationsResponse(t).status = 401
           /\ \A id \in NotifIdInputs :
                markNotificationAsReadResponse(t, id).status = 401
           /\ markAllNotificationsAsReadResponse(t).status = 401
           /\ getUnreadNotificationCountResponse(t).status = 401
      ELSE protect(t) = [status |-> 0, msg |-> "",
                         user |-> [id |-> t.id, role |-> users[t.id].role]]

C5_Effect ==
  (db' # db) => \A t \in Tokens : Rejected(t) => ~RequestWith(t)

\* C5: on every profile, entry and notification route a request with no
\* bearer token, a badly signed or expired token, or a token of a user that
\* is not in the database is answered 401 and writes nothing; otherwise
\* req.user is the id and the role of the user document that was loaded.
C5_ProtectGuardsEveryRoute == []C5_Responses /\ [][C5_Effect]_vars

\* one user with an entry and a notification: that user's token is admitted,
\* an expired token and the token of an unknown user are refused
C5_Witness ==
  /\ Len(users) = 1
  /\ entries # {} /\ notifications # {}
  /\ protect(TokenOf(1)).status = 0
  /\ getUserEntriesResponse(ExpiredToken).msg = "Not authorized, token failed"
  /\ getUserNotificationsResponse(TokenOf(2)).msg
       = "Not authorized, user not found"

RowsOfOthers(A, S) == {e \in S : e.userId # A}

C6_Responses ==
  \A A \in DOMAIN users :
    LET t == TokenOf(A)
        unread == Cardinality({n \in notifications : n.userId = A /\ ~n.isRead})
    IN
    /\ \A e \in getUserEntriesResponse(t).body : e.userId = A
    /\ \A now \in Nows :
         \A b \in getBudgetAnalysisResponse(t, Absent, now, 0).body :
           /\ b.user.id = A
           /\ b.analysis.totalExpenses <=
                SumPrices({e \in entries : e.userId = A})
    /\ LET list == getUserNotificationsResponse(t).body IN
         \A i \in DOMAIN list : list[i].userId = A
    /\ getUnreadNotificationCountResponse(t).body = {unread}
    /\ markAllNotificationsAsReadResponse(t).body = {unread}
    /\ \A e \in RowsOfOthers(A, entries) :
         /\ \A b \in Bodies, p \in ValidPrices :
              LET r == updateEntryResponse(t, e.id, b.title, p, b.date) IN
              r.status = 404 /\ r.msg = "Entry not found"
         /\ deleteEntryResponse(t, e.id).status = 404
         /\ deleteEntryResponse(t, e.id).msg = "Entry not found"
    /\ \A n \in RowsOfOthers(A, notifications) :
         markNotificationAsReadResponse(t, n.id).status = 404
    /\ \A id \in NotifIdInputs :
         \A n \in markNotificationAsReadResponse(t, id).body : n.userId = A

C6_Effect ==
  (entries' # entries \/ notifications' # notifications) =>
    /\ \A e \in entries, f \in entries' : e.id = f.id => e.userId = f.userId
    /\ \A A \in DOMAIN users :
         (\/ RowsOfOthers(A, entries') # RowsOfOthers(A, entries)
          \/ RowsOfOthers(A, notifications') # RowsOfOthers(A, notifications))
           => ~RequestWith(TokenOf(A))

\* C6: what a user is sent (entry list, budget analysis, notification list,
\* unread count) holds only that user's rows; a request of user A leaves the
\* entries and notifications of every other user as they were; updateEntry,
\* deleteEntry and markNotificationAsRead on another user's row answer 404;
\* an entry never changes its userId.
C6_UserIsolation == []C6_Responses /\ [][C6_Effect]_vars

\* two users, each with an entry and a notification of their own
C6_Witness ==
  /\ Len(users) = 2
  /\ \A A \in DOMAIN users :
       /\ \E e \in entries : e.userId = A
       /\ \E n \in notifications : n.userId = A
       /\ \E e \in entries : deleteEntryResponse(TokenOf(A), e.id).status = 404

C9_Effect ==
  (notifications' # notifications) =>
    \A n \in notifications :
      \E m \in notifications' :
        /\ m.id = n.id /\ m.userId = n.userId
        /\ m.message = n.message /\ m.type = n.type
        /\ (n.isRead => m.isRead)

\* C9: no request handler removes a notification or changes its userId,
\* message or type; isRead only goes from false to true.
C9_NotificationsAppendOnly == [][C9_Effect]_vars

\* a user has a notification that was marked read and one still unread
C9_Witness ==
  \E n \in notifications, m \in notifications :
    n.userId = m.userId /\ n.isRead /\ ~m.isRead

C10_Effect ==
  (boot' # boot) =>
    /\ users' = users /\ entries' = entries
    /\ (boot.wipe = "pending" /\ boot'.wipe = "cleared") => notifications' = {}
    /\ (boot.wipe = "pending" /\ boot'.wipe = "error") =>
         /\ boot'.conn = "connected"
         /\ notifications' = notifications

\* C10: the boot-time wipe runs once the connection is up and leaves no
\* notification; booting leaves users and entries as they were; a wipe that
\* fails leaves the server connected and running.
C10_BootWipesNotifications ==
  [](boot.wipe # "pending" => boot.conn = "connected") /\ [][C10_Effect]_vars

\* after a restart the wipe has run: notifications that had been created are
\* gone, the users and their entries are still there
C10_Witness ==
  /\ boot.wipe = "cleared"
  /\ nextNotifId > 1 /\ notifications = {}
  /\ users # <<>> /\ entries # {}

\* slot s takes its save step in this step
Saves(s, op) ==
  /\ reqs[s].op = op /\ reqs[s].pc = "save"
  /\ reqs'[s] # reqs[s]

C3_Effect ==
  (reqs' # reqs) =>
  \A s \in Slots :
    /\ Saves(s, "add") =>
         entries' = entries \cup
           {[id |-> nextEntryId, userId |-> reqs[s].user,
             title |-> reqs[s].title, price |-> reqs[s].price,
             date |-> reqs[s].date]}
    /\ (/\ Saves(s, "update")
        /\ reqs[s].price # reqs[s].doc.price
        /\ \E e \in entries : e.id = reqs[s].doc.id) =>
         \E e \in entries' :
           /\ e.id = reqs[s].doc.id
           /\ e.price = reqs[s].price
           /\ e.userId = reqs[s].user

\* C3: the total is read in one step and the entry is written in a later
\* one, and the write is not conditional on the total at that time: an
\* addEntry that passed its check persists its entry, and an updateEntry that
\* passed its check persists the price it changes, whatever was written in
\* between.
C3_CheckNotAtomicWithWrite == [][C3_Effect]_vars

\* an expense above the limit; no updateProfile is taken under SpecConc, so
\* the limit is the one the checks were made against
OverLimit(u) ==
  /\ OwnTotal(u) > users[u].budgetLimit
  /\ \A e \in entries : e.userId = u => e.price <= users[u].budgetLimit

\* two requests of one user have both been answered with success and the
\* user's total is above the limit, each entry alone being within it
C3_Witness ==
  /\ \A s \in Slots : ~Busy(s)
  /\ \E u \in DOMAIN users :
       /\ OverLimit(u)
       /\ Cardinality({e \in entries : e.userId = u}) = 2
       /\ Cardinality({n \in notifications : n.userId = u}) = 2

\* the same with an addEntry racing an updateEntry
C3_WitnessAddUpdate ==
  /\ \A s \in Slots : ~Busy(s)
  /\ \E u \in DOMAIN users :
       /\ OverLimit(u)
       /\ \E n \in notifications : n.userId = u /\ n.type = "edit"
       /\ removed = {}

DeleteNotifications(u) ==
  {n \in notifications : n.userId = u /\ n.type = "delete"}

\* C8: a 'delete' notification is about an entry that has been removed, an
\* 'add' or 'edit' notification about an entry that has been written, and a
\* user has no more 'delete' notifications than deleted entries; in every
\* state, the ones between the steps of a handler included.
C8_NotificationDescribesCompletedMutation ==
  /\ \A n \in notifications :
       IF n.type = "delete"
         THEN /\ <<n.about, n.userId>> \in removed
              /\ \A e \in entries : e.id # n.about
         ELSE n.about \in 1..(nextEntryId - 1)
  /\ \A u \in DOMAIN users :
       Cardinality(DeleteNotifications(u))
         <= Cardinality({r \in removed : r[2] = u})

\* no request is in flight and a user has more 'delete' notifications than
\* deleted entries
C8_TwoDeletesOneRemoval ==
  /\ \A s \in Slots : ~Busy(s)
  /\ \E u \in DOMAIN users :
       Cardinality(DeleteNotifications(u))
         > Cardinality({r \in removed : r[2] = u})

\* what holds of the 'add' and 'edit' notifications alone
C8_AddEditAfterWrite ==
  \A n \in notifications :
    n.type # "delete" => n.about \in 1..(nextEntryId - 1)

\* the unread notifications of a user
Unread(u) == {n \in notifications : n.userId = u /\ ~n.isRead}

C11_Response ==
  \A u \in DOMAIN users :
    /\ markAllNotificationsAsReadResponse(TokenOf(u)).status = 200
    /\ markAllNotificationsAsReadResponse(TokenOf(u)).body
         = {Cardinality(Unread(u))}

C11_Effect ==
  (notifications' # notifications) =>
    \A u \in DOMAIN users :
      markAllNotificationsAsRead(TokenOf(u)) =>
        /\ notifications' =
             {IF n \in Unread(u) THEN [n EXCEPT !.isRead = TRUE] ELSE n :
                n \in notifications}
        /\ (getUnreadNotificationCountResponse(TokenOf(u)).body = {0})'
        /\ (markAllNotificationsAsReadResponse(TokenOf(u)).body = {0})'

\* a user with nothing unread: mark-all-read answers 0 and would write nothing
C11_SecondCall ==
  \A u \in DOMAIN users :
    Unread(u) = {} =>
      {IF UnreadOf(n, u) THEN MarkRead(n) ELSE n : n \in notifications}
        = notifications

\* C11: markAllNotificationsAsRead answers updatedCount = the number of the
\* requester's unread notifications, sets isRead on exactly those and changes
\* nothing else; right after it the requester's unread count is 0 and a
\* second call answers 0 and writes nothing.
C11_MarkAllRead ==
  [](C11_Response /\ C11_SecondCall) /\ [][C11_Effect]_vars

\* a user has only read notifications while another user still has an unread one
C11_Witness ==
  \E u \in DOMAIN users, v \in DOMAIN users :
    /\ u # v
    /\ \E n \in notifications : n.userId = u
    /\ Unread(u) = {}
    /\ Unread(v) # {}
    /\ markAllNotificationsAsReadResponse(TokenOf(u)).body = {0}

\* the notifications of a user
NotificationsOf(u) == {n \in notifications : n.userId = u}

\* C12: getUserNotifications returns notifications of the requester only,
\* newest first, at most 50 of them: all of them when the requester has at
\* most 50, and otherwise the 50 created last.
C12_LatestFiftyNewestFirst ==
  \A u \in DOMAIN users :
    LET r == getUserNotificationsResponse(TokenOf(u))
        list == r.body
        mine == NotificationsOf(u)
        returned == {list[i] : i \in DOMAIN list}
    IN
    /\ r.status = 200
    /\ returned \subseteq mine
    /\ Len(list) <= 50
    /\ Len(list) = IF Cardinality(mine) <= 50 THEN Cardinality(mine) ELSE 50
    /\ \A i \in DOMAIN list, j \in DOMAIN list :
         i < j => list[i].id > list[j].id
    /\ \A n \in mine \ returned : \A m \in returned : m.id > n.id

\* a user has 52 notifications: the two oldest are left out of the list
C12_Witness ==
  \E u \in DOMAIN users :
    LET list == getUserNotificationsResponse(TokenOf(u)).body IN
    /\ Cardinality(NotificationsOf(u)) = 52
    /\ Len(list) = 50
    /\ list[1].id = 52 /\ list[50].id = 3

\* no two user documents share an email
UniqueEmails ==
  \A i \in DOMAIN users, j \in DOMAIN users :
    i # j => users[i].email # users[j].email

\* a request handled with no other request between its read and its write:
\* an email that is taken is answered 400
C13_Responses ==
  /\ \A email \in Emails, limit \in LimitInputs :
       EmailTaken(email) =>
         /\ signupResponse(email, AnyPassword, limit).status = 400
         /\ signupResponse(email, AnyPassword, limit).msg =
              "An account already exists with this email"
  /\ \A u \in DOMAIN users, email \in Emails, limit \in LimitInputs :
       DuplicateKey(email, u) =>
         /\ updateProfileResponse(TokenOf(u), email, limit).status = 400
         /\ updateProfileResponse(TokenOf(u), email, limit).msg =
              "An account already exists with this email"

\* a write of an email that another account holds is answered 400, with the
\* message, and changes no user
C13_Effect ==
  (reqs' # reqs) =>
    \A s \in Slots :
      /\ (signupSave(s) /\ DuplicateKey(reqs[s].email, 0)) =>
           /\ users' = users
           /\ signupSaveResponse(s).status = 400
           /\ signupSaveResponse(s).msg =
                "An account already exists with this email"
      /\ (/\ updateProfileSave(s)
          /\ reqs[s].email # Absent
          /\ DuplicateKey(reqs[s].email, reqs[s].user)) =>
           /\ users' = users
           /\ updateProfileSaveResponse(s).status = 400
           /\ updateProfileSaveResponse(s).msg =
                "An account already exists with this email"

\* C13: emails are unique in every reachable state, and a signup or an
\* updateProfile asking for an email that another account holds is answered
\* 400 'An account already exists with this email' and changes no user,
\* under every interleaving of signup and updateProfile requests.
C13_UniqueEmailsAnyInterleaving ==
  [](UniqueEmails /\ C13_Responses) /\ [][C13_Effect]_vars

\* what holds under every interleaving: emails stay unique, a request that
\* reads the taken email is answered 400, and a rejected write changes no user
C13_UniqueEmailsKept ==
  /\ [](UniqueEmails /\ C13_Responses)
  /\ [][(reqs' # reqs) =>
          \A s \in Slots :
            /\ (signupSave(s) /\ DuplicateKey(reqs[s].email, 0)) =>
                 users' = users
            /\ (/\ updateProfileSave(s)
                /\ reqs[s].email # Absent
                /\ DuplicateKey(reqs[s].email, reqs[s].user)) =>
                 users' = users]_vars

\* two signups for one email are past findOne, and one of them has saved
C13_Witness ==
  \E s \in Slots :
    /\ reqs[s].op = "signup"
    /\ DuplicateKey(reqs[s].email, 0)
    /\ signupSaveResponse(s).status = 500

\* a signup and an updateProfile for one email are past findOne, and the
\* signup has saved
C13_WitnessProfile ==
  \E s \in Slots :
    /\ reqs[s].op = "profile" /\ reqs[s].email # Absent
    /\ DuplicateKey(reqs[s].email, reqs[s].user)
    /\ updateProfileSaveResponse(s).status = 500

\* the users whose email and password a login body gives
Credentialed(email, password) ==
  {u \in DOMAIN users :
     /\ users[u].email = email
     /\ \E salt \in Salts : users[u].password = Hash(password, salt)}

\* the answer the claim gives to a login
LoginAnswered(email, password) ==
  LET r == loginResponse(email, password) IN
  IF Credentialed(email, password) # {}
    THEN /\ r.status = 200
         /\ \A b \in r.body :
              /\ b.token.id \in Credentialed(email, password)
              /\ b.token.role = users[b.token.id].role
              /\ JwtVerify(b.token)
    ELSE r.status = 400 /\ r.msg = "Invalid credentials" /\ r.body = {}

\* no login step changes the database
C14_Effect ==
  (vars' # vars) =>
    \A email \in Emails, password \in PasswordInputs : ~login(email, password)

\* C14: login answers with a token for the user's id and role exactly when a
\* user with the given email exists and the given password matches the
\* stored hash; every other login is answered 400 'Invalid credentials';
\* no login changes stored state.
C14_LoginTokenOr400 ==
  /\ [](\A email \in Emails, password \in PasswordInputs :
          LoginAnswered(email, password))
  /\ [][C14_Effect]_vars

\* what holds: the claim for every login whose body has a password
C14_LoginWithPassword ==
  /\ [](\A email \in Emails, password \in Passwords :
          LoginAnswered(email, password))
  /\ [][C14_Effect]_vars

\* a registered email and a body without a password
C14_Witness ==
  \E u \in DOMAIN users :
    loginResponse(users[u].email, Absent).status = 500

\* a user who changed email and budgetLimit logs in with the new email and
\* the password of the signup; the old email and the other password get 400
C14_WitnessLogin ==
  /\ Len(users) = 1
  /\ users[1].email = "b@x.com"
  /\ loginResponse("b@x.com", "pw2").status = 200
  /\ loginResponse("b@x.com", "pw1").status = 400
  /\ loginResponse("a@x.com", "pw2").status = 400

\* months counted from year 0
MonthIndex(year, month) == year * 12 + month - 1

\* the number of month buckets the claim gives a range
BucketCount(range) ==
  IF range = "last-month" THEN 1
  ELSE IF range = "last-6-months" THEN 6
  ELSE 12

\* the last month of a range: the month before the current one for
\* 'last-month', the current month otherwise
LastMonthIndex(range, now) ==
  MonthIndex(Year(now), Month(now)) - (IF range = "last-month" THEN 1 ELSE 0)

\* the entries of user u dated in a month, on a day
EntriesInMonth(u, year, month) ==
  {e \in entries : e.userId = u /\ Year(e.date) = year /\ Month(e.date) = month}

EntriesOnDay(u, year, month, day) ==
  {e \in EntriesInMonth(u, year, month) : Day(e.date) = day}

\* the buckets of an analysis: 1, 6 or 12 consecutive months in order, the
\* days of the previous month exactly for 'last-month'
BucketStructure(a, range, now) ==
  LET n == BucketCount(range)
      last == LastMonthIndex(range, now)
  IN
  /\ Len(a.months) = n
  /\ \A i \in 1..n :
       MonthIndex(a.months[i].year, a.months[i].month) = last - (n - i)
  /\ a.hasDays = (range = "last-month")
  /\ a.hasDays =>
       /\ Len(a.days) = DaysInMonth(a.months[1].year, a.months[1].month)
       /\ \A i \in DOMAIN a.days :
            /\ a.days[i].day = i
            /\ a.days[i].month = a.months[1].month
            /\ a.days[i].year = a.months[1].year

\* a month in which the user has no entry has total 0
EmptyMonthsZero(a, u) ==
  \A i \in DOMAIN a.months :
    EntriesInMonth(u, a.months[i].year, a.months[i].month) = {} =>
      a.months[i].totalExpenses = 0

\* C15: the analysis has 1 ('last-month'), 6 ('last-6-months') or 12 (any
\* other or no range) month buckets, consecutive and in order, ending with
\* the previous month for 'last-month' and the current month otherwise; a
\* month without entries is present with total 0; the days array, one bucket
\* per day of the previous month, is present exactly for 'last-month'.
C15_BucketStructure ==
  \A u \in DOMAIN users, range \in Ranges, now \in Nows, tz \in TimeZones :
    \A b \in getBudgetAnalysisResponse(TokenOf(u), range, now, tz).body :
      BucketStructure(b.analysis, range, now) /\ EmptyMonthsZero(b.analysis, u)

\* what holds in every time zone: the buckets themselves
C15_StructureEveryZone ==
  \A u \in DOMAIN users, range \in Ranges, now \in Nows, tz \in TimeZones :
    \A b \in getBudgetAnalysisResponse(TokenOf(u), range, now, tz).body :
      BucketStructure(b.analysis, range, now)

\* what holds on a server whose clock is UTC
C15_StructureAndZerosInUTC ==
  \A u \in DOMAIN users, range \in Ranges, now \in Nows :
    \A b \in getBudgetAnalysisResponse(TokenOf(u), range, now, 0).body :
      BucketStructure(b.analysis, range, now) /\ EmptyMonthsZero(b.analysis, u)

\* west of UTC, an entry of 1 March is counted in the February bucket of a
\* user who has no February entry
C15_Witness ==
  \E u \in DOMAIN users :
    /\ EntriesInMonth(u, 2024, 2) = {}
    /\ \E b \in getBudgetAnalysisResponse(TokenOf(u), "last-12-months",
                                          20240331, -5).body :
         b.analysis.months[11].month = 2 /\ b.analysis.months[11].totalExpenses > 0

\* the values of one bucket, for the entries that belong in it
BucketValues(bucket, own, budgetLimit) ==
  /\ bucket.totalExpenses = SumPrices(own)
  /\ bucket.budgetLimit = budgetLimit
  /\ bucket.exceeded = (SumPrices(own) > budgetLimit)
  /\ bucket.remaining = budgetLimit - SumPrices(own)

\* the values of an analysis of user u
AnalysisValues(a, u) ==
  LET limit == users[u].budgetLimit
      inMonths == {e \in entries :
                     /\ e.userId = u
                     /\ \E i \in DOMAIN a.months :
                          /\ Year(e.date) = a.months[i].year
                          /\ Month(e.date) = a.months[i].month}
  IN
  /\ \A i \in DOMAIN a.months :
       BucketValues(a.months[i],
                    EntriesInMonth(u, a.months[i].year, a.months[i].month),
                    limit)
  /\ \A i \in DOMAIN a.days :
       BucketValues(a.days[i],
                    EntriesOnDay(u, a.days[i].year, a.days[i].month, i),
                    limit)
  /\ a.totalExpenses = SumPrices(inMonths)
  /\ a.totalBudget = Len(a.months) * limit
  /\ a.overallExceeded = (\E i \in DOMAIN a.months : a.months[i].exceeded)

\* C16: every month or day bucket's totalExpenses is the sum of the
\* requester's entries dated in that month or on that day, its budgetLimit
\* the user's budgetLimit, exceeded = totalExpenses > budgetLimit, remaining =
\* budgetLimit - totalExpenses; the analysis' totalExpenses is the sum over
\* the month buckets, totalBudget the number of month buckets times the
\* budgetLimit, overallExceeded true iff some month bucket is exceeded.
C16_BucketValues ==
  \A u \in DOMAIN users, range \in Ranges, now \in Nows, tz \in TimeZones :
    \A b \in getBudgetAnalysisResponse(TokenOf(u), range, now, tz).body :
      AnalysisValues(b.analysis, u)

\* what holds on a server whose clock is UTC
C16_BucketValuesInUTC ==
  \A u \in DOMAIN users, range \in Ranges, now \in Nows :
    \A b \in getBudgetAnalysisResponse(TokenOf(u), range, now, 0).body :
      AnalysisValues(b.analysis, u)

\* east of UTC, 'last-month' asked in March leaves the entry of 29 February
\* out of the February bucket
C16_Witness ==
  \E u \in DOMAIN users :
    /\ EntriesOnDay(u, 2024, 2, 29) # {}
    /\ \E b \in getBudgetAnalysisResponse(TokenOf(u), "last-month",
                                          20240331, 5).body :
         /\ b.analysis.months[1].totalExpenses
              < SumPrices(EntriesInMonth(u, 2024, 2))
         /\ b.analysis.days[29].totalExpenses = 0

\* on a UTC server a month at its limit is not exceeded and one above is
C16_WitnessUTC ==
  \E b \in getBudgetAnalysisResponse(TokenOf(1), "last-6-months",
                                     20240331, 0).body :
    /\ users[1].budgetLimit = 1
    /\ b.analysis.months[5].totalExpenses = 2 /\ b.analysis.months[5].exceeded
    /\ b.analysis.months[6].totalExpenses = 1 /\ ~b.analysis.months[6].exceeded
    /\ b.analysis.months[4].totalExpenses = 0
    /\ b.analysis.overallExceeded

\* the answers of getBudgetAnalysis to the users of the database for the
\* month that holds the dates of Bodies, asked at one current date
AnalysisAnswers ==
  [u \in DOMAIN users, tz \in TimeZones |->
     getBudgetAnalysisResponse(TokenOf(u), "last-month", 20240331, tz)]

\* a step that changes the database is no read request, and a step that
\* leaves the database alone leaves every analysis answer as it was
C17_Effect ==
  (vars' # vars) =>
    IF db' # db
      THEN \A t \in Tokens : ~ReadRequest(t)
      ELSE AnalysisAnswers' = AnalysisAnswers

Persisted(c, token, rememberMe) ==
  /\ IF rememberMe
       THEN c.local.token = token /\ c.local.rememberMe = "true"
       ELSE /\ c.session.token = token
            /\ c.local.rememberMe = ""
            /\ c.local.token = NullToken
  /\ getAuthToken(c) = token

C18_Effect ==
  (client' # client) =>
    \A budgetLimit \in 0..MaxAmount :
      clientLoginProfile(budgetLimit) =>
        Persisted(client', client.login.token, client.login.rememberMe)

\* C18: when a login completes, with rememberMe the token it was issued is in
\* localStorage and localStorage.rememberMe is 'true'; without rememberMe the
\* token is in sessionStorage, the flag is absent and localStorage holds no
\* token; getAuthToken returns that token.  Whatever logins, logouts and
\* reloads came before.
C18_TokenPersistence == [][C18_Effect]_vars

\* what holds: right after the storage writes of a login the token is where
\* the selection puts it and the flag follows the selection; getAuthToken
\* returns it when rememberMe is set or localStorage held no token before
C18_StoredWhereSelected ==
  [][(client' # client) =>
       (clientLoginResolved =>
          LET token == client'.login.token
              rememberMe == client.login.rememberMe
          IN /\ client'.token = token
             /\ IF rememberMe
                  THEN /\ client'.local.token = token
                       /\ client'.local.rememberMe = "true"
                  ELSE /\ client'.session.token = token
                       /\ client'.local.rememberMe = ""
                       /\ client'.local.token = client.local.token
             /\ (rememberMe \/ client.local.token = NullToken)
                  => getAuthToken(client') = token)]_vars

\* a login without rememberMe has stored its token next to one localStorage
\* already held
C18_WitnessStored ==
  /\ client.login.pc = "profile"
  /\ ~client.login.rememberMe
  /\ client.session.token = client.login.token
  /\ client.local.token # NullToken
  /\ client.login.sent = client.local.token

\* a login without rememberMe has completed; localStorage still holds the
\* token of the login before, getAuthToken returns it, and the user in the
\* context is the account of that token
C18_Witness ==
  /\ client.login.pc = "idle" /\ client.checkAuth.pc = "idle"
  /\ client.token # NullToken /\ client.user # NullUser
  /\ client.session.token = client.token
  /\ client.local.token # NullToken
  /\ getAuthToken(client) # client.token
  /\ client.user.email # client.token.email
  /\ ProtectedRoute(client) = "page"

C19_Effect ==
  (client' # client) =>
    (logout =>
       /\ client'.local.token = NullToken
       /\ client'.local.rememberMe = ""
       /\ client'.session.token = NullToken
       /\ client'.token = NullToken
       /\ client'.user = NullUser
       /\ ~client'.isLoading
       /\ ProtectedRoute(client') = "/login")

\* C19: logout leaves no token and no rememberMe flag in localStorage, no
\* token in sessionStorage, token and user null and isLoading false in the
\* context, and a protected route then redirects to /login; whatever logins,
\* reloads and profile updates came before.
C19_LogoutClears == [][C19_Effect]_vars

\* after a login the storages and the context are empty again
C19_Witness ==
  /\ client.issued > 0
  /\ client.local.token = NullToken /\ client.local.rememberMe = ""
  /\ client.session.token = NullToken
  /\ client.token = NullToken /\ client.user = NullUser
  /\ ~client.isLoading
  /\ client.login.pc = "idle"
  /\ ProtectedRoute(client) = "/login"

\* C20: a protected route shows the loading screen while isLoading, the page
\* when isLoading is false and token and user are both set, and redirects to
\* /login otherwise; a public route shows the loading screen while isLoading,
\* redirects to /dashboard when token and user are both set, and shows the
\* page otherwise.
C20_RouteProtection ==
  LET authed == client.token # NullToken /\ client.user # NullUser IN
  /\ ProtectedRoute(client) \in {"loading", "/login", "page"}
  /\ PublicRoute(client) \in {"loading", "/dashboard", "page"}
  /\ ProtectedRoute(client) = "loading" <=> client.isLoading
  /\ ProtectedRoute(client) = "page" <=> (~client.isLoading /\ authed)
  /\ PublicRoute(client) = "loading" <=> client.isLoading
  /\ PublicRoute(client) = "/dashboard" <=> (~client.isLoading /\ authed)
  /\ PublicRoute(client) = "page" => ~authed

\* a token without a user: login is between its two awaits
C20_Witness ==
  /\ client.token # NullToken /\ client.user = NullUser
  /\ ~client.isLoading
  /\ client.login.pc = "profile"
  /\ ProtectedRoute(client) = "/login"
  /\ PublicRoute(client) = "page"

C21_Effect ==
  (client' # client) =>
    (makeAuthRequest401 =>
       /\ client'.local.token = NullToken
       /\ client'.session.token = NullToken
       /\ ProtectedRoute(client') = "/login")

\* C21: when a request of a protected page is answered 401, the token is
\* removed from localStorage and sessionStorage and from then on a protected
\* route redirects to /login instead of rendering the page.
C21_UnauthorizedForcesLogin == [][C21_Effect]_vars

\* what holds: the 401 empties both storages of their token, the context keeps
\* its token and user, and the next load of the page redirects to /login
C21_TokensClearedOnly ==
  /\ [][(client' # client) =>
         (makeAuthRequest401 =>
            /\ getAuthToken(client') = NullToken
            /\ client'.token = client.token
            /\ client'.user = client.user
            /\ ProtectedRoute(client') = "page")]_vars
  /\ [][(client' # client) =>
         ((Reload /\ getAuthToken(client) = NullToken) =>
            ProtectedRoute(client') = "/login")]_vars

\* after a 401 the storages hold no token and the protected page is still
\* rendered
C21_Witness ==
  /\ client.token # NullToken /\ client.user # NullUser
  /\ ~client.isLoading
  /\ client.login.pc = "idle" /\ client.checkAuth.pc = "idle"
  /\ getAuthToken(client) = NullToken
  /\ ProtectedRoute(client) = "page"

\* the body's price is a JSON number or a string that is a numeral
IsNumber(raw) ==
  \/ raw.type = "number"
  \/ raw.type = "string" /\ raw.text = "1"

\* every entry and every price: what addEntry and updateEntry answer an
\* authenticated requester when rejects(raw) holds of the body's price
PriceRejected(rejects(_)) ==
  \A u \in DOMAIN users, b \in Bodies, raw \in RawPrices :
    rejects(raw) =>
      /\ LET r == addEntryResponse(TokenOf(u), b.title, Number(raw), b.date)
         IN r.status = 400 /\ r.msg = "Invalid price value"
      /\ \A id \in EntryIdInputs :
           LET r == updateEntryResponse(TokenOf(u), id, b.title, Number(raw),
                                        b.date)
           IN r.status = 400 /\ r.msg = "Invalid price value"

NotNumberOrNegative(raw) == ~IsNumber(raw) \/ Number(raw).n < 0

ConvertsToNaNOrNegative(raw) == Number(raw).nan \/ Number(raw).n < 0

StoredPricesNonNegative == \A e \in entries : e.price >= 0

ZeroAccepted ==
  \A u \in DOMAIN users, b \in Bodies :
    LET zero == [type |-> "number", n |-> 0, text |-> ""] IN
    /\ addEntryResponse(TokenOf(u), b.title, Number(zero), b.date).status
         = IF OwnTotal(u) > users[u].budgetLimit THEN 400 ELSE 201
    /\ \A e \in {x \in entries : x.userId = u} :
         updateEntryResponse(TokenOf(u), e.id, b.title, Number(zero),
                             b.date).status
           = IF OthersTotal(u, e) > users[u].budgetLimit THEN 400 ELSE 200

C22_Effect ==
  (vars' # vars) =>
    \A u \in DOMAIN users, b \in Bodies, raw \in RawPrices :
      ConvertsToNaNOrNegative(raw) =>
        /\ addEntry(TokenOf(u), b.title, Number(raw), b.date) => FALSE
        /\ \A id \in EntryIdInputs :
             updateEntry(TokenOf(u), id, b.title, Number(raw), b.date)
               => FALSE

\* C22: addEntry and updateEntry answer 400 'Invalid price value' to a price
\* that is not a number or is negative, whatever the database holds, and
\* write nothing; every stored entry has price >= 0; a price of 0 is accepted.
C22_PriceValidation ==
  /\ []PriceRejected(NotNumberOrNegative)
  /\ []StoredPricesNonNegative
  /\ []ZeroAccepted
  /\ [][C22_Effect]_vars

\* what holds: the same with "not a number" read as "Number(price) is NaN"
C22_ConvertedPriceValidation ==
  /\ []PriceRejected(ConvertsToNaNOrNegative)
  /\ []StoredPricesNonNegative
  /\ []ZeroAccepted
  /\ [][C22_Effect]_vars

\* a body whose price is null would be stored with price 0
C22_Witness ==
  \E u \in DOMAIN users :
    LET null == [type |-> "null", n |-> 0, text |-> ""]
        r == addEntryResponse(TokenOf(u), "rent", Number(null), 20240229)
    IN /\ r.status = 201
       /\ \A e \in r.body : e.price = 0
       /\ \E e \in entries : e.userId = u /\ e.price = 0

\* an entry of price 0 is stored next to one of a positive price, and a
\* negative price is refused
C22_WitnessZero ==
  \E u \in DOMAIN users :
    /\ \E e \in entries : e.userId = u /\ e.price = 0
    /\ \E e \in entries : e.userId = u /\ e.price > 0
    /\ addEntryResponse(TokenOf(u), "rent", [nan |-> FALSE, n |-> -1],
                        20240229).msg = "Invalid price value"

\* an entry of user u that the search and the date filter let through
Matches(e, u, search, dateFilter) ==
  /\ e.userId = u
  /\ search = "rent" => e.title = "rent"
  /\ search = "FOO" => e.title = "food"
  /\ search = "zzz" => FALSE
  /\ dateFilter # NoDate => e.date = dateFilter

\* the page and the limit the claim gives a request
AskedFor(raw, fallback) ==
  IF raw.type = "numeral" /\ raw.n >= 1 THEN raw.n ELSE fallback

Elements(list) == {list[i] : i \in 1..Len(list)}

\* one page of the list: its size, its entries and its pagination record
PageAsClaimed(u, rawPage, rawLimit, search, dateFilter, sortBy, ties) ==
  LET r == getUserEntriesPageResponse(TokenOf(u), rawPage, rawLimit, search,
                                      dateFilter, sortBy, ties)
      page == AskedFor(rawPage, 1)
      limit == AskedFor(rawLimit, 8)
      total == Cardinality({e \in entries :
                              Matches(e, u, search, dateFilter)})
      shown == r.body.entries
      info == r.body.pagination
  IN /\ r.status = 200
     /\ Len(shown) <= limit
     /\ \A i \in 1..Len(shown) : Matches(shown[i], u, search, dateFilter)
     /\ \A i, j \in 1..Len(shown) : shown[i] = shown[j] => i = j
     /\ info.currentPage = page /\ info.limit = limit
     /\ info.totalEntries = total
     /\ info.totalPages * limit >= total
     /\ (info.totalPages - 1) * limit < total
     /\ info.totalPages >= 0
     /\ info.hasNextPage <=> page < info.totalPages
     /\ info.hasPrevPage <=> page > 1
     /\ page > info.totalPages => shown = <<>>
     /\ page < info.totalPages => Len(shown) = limit

PagesAsClaimed ==
  \A u \in DOMAIN users, rawPage \in QueryPages, rawLimit \in QueryLimits,
     search \in Searches, dateFilter \in DateFilters, sortBy \in SortBys,
     ties \in Ties :
    (rawPage.n >= 0) =>
      PageAsClaimed(u, rawPage, rawLimit, search, dateFilter, sortBy, ties)

\* the entries of page p
PageEntries(u, p, limit, search, dateFilter, sortBy, ties) ==
  Elements(getUserEntriesPageResponse(
             TokenOf(u), [type |-> "numeral", n |-> p],
             [type |-> "numeral", n |-> limit], search, dateFilter, sortBy,
             ties).body.entries)

\* pages 1..totalPages hold every matching entry, and no two pages share one,
\* whichever order each request gives the documents its sort leaves equal
EveryEntryOnce(u, limit, search, dateFilter, sortBy) ==
  LET matching == {e \in entries : Matches(e, u, search, dateFilter)}
      totalPages == CeilDiv(Cardinality(matching), limit)
  IN /\ \A ties \in Ties :
          UNION {PageEntries(u, p, limit, search, dateFilter, sortBy, ties) :
                   p \in 1..totalPages} = matching
     /\ \A p \in 1..totalPages, q \in 1..totalPages, t1 \in Ties, t2 \in Ties :
          p < q =>
            PageEntries(u, p, limit, search, dateFilter, sortBy, t1)
              \cap PageEntries(u, q, limit, search, dateFilter, sortBy, t2)
              = {}

\* the sort leaves no two of the user's entries equal, or it is on date or
\* absent
OrderIsFixed(u, sortBy) ==
  \/ sortBy \notin {"price-high-low", "price-low-high"}
  \/ \A a, b \in {e \in entries : e.userId = u} :
       a.price = b.price => a = b

\* C23: for page >= 1 and limit >= 1 the response holds at most limit entries,
\* all the requester's and all matching the filters; totalEntries counts the
\* matching entries, totalPages is its quotient by limit rounded up,
\* hasNextPage is page < totalPages and hasPrevPage is page > 1; a page past
\* totalPages is empty; a missing, non-numeric or zero page or limit stands
\* for page 1 and limit 8; and for every sort, pages 1..totalPages hold each
\* matching entry exactly once.
C23_Pagination ==
  /\ PagesAsClaimed
  /\ \A u \in DOMAIN users, limit \in 1..MaxPage, search \in Searches,
        dateFilter \in DateFilters, sortBy \in SortBys :
       EveryEntryOnce(u, limit, search, dateFilter, sortBy)

\* what holds: the same, with the last part for the sorts that leave no two
\* entries equal
C23_PaginationWhenOrderIsFixed ==
  /\ PagesAsClaimed
  /\ \A u \in DOMAIN users, limit \in 1..MaxPage, search \in Searches,
        dateFilter \in DateFilters, sortBy \in SortBys :
       OrderIsFixed(u, sortBy) =>
         EveryEntryOnce(u, limit, search, dateFilter, sortBy)

\* two entries of one price: sorted by price with limit 1, the first page of
\* one request and the second page of another can show the same entry
C23_Witness ==
  \E u \in DOMAIN users, a \in entries, b \in entries :
    /\ a # b /\ a.userId = u /\ b.userId = u /\ a.price = b.price
    /\ \E t1 \in Ties, t2 \in Ties :
         PageEntries(u, 1, 1, "", NoDate, "price-high-low", t1)
           = PageEntries(u, 2, 1, "", NoDate, "price-high-low", t2)

\* more than eight entries of one user: the default limit cuts the first
\* page, and the second page holds the rest
C23_WitnessDefaultLimit ==
  \E u \in DOMAIN users :
    LET none == [type |-> "undefined", n |-> 0]
        r == getUserEntriesPageResponse(TokenOf(u), none, none, "", NoDate,
                                        "all", "oldest first")
    IN /\ Len(r.body.entries) = 8
       /\ r.body.pagination.totalEntries = 9
       /\ r.body.pagination.totalPages = 2
       /\ r.body.pagination.hasNextPage

\* no month or day bucket of the answer is exceeded, none has a negative
\* remainder
WithinBudget(body) ==
  /\ \A i \in DOMAIN body.analysis.months :
       /\ ~body.analysis.months[i].exceeded
       /\ body.analysis.months[i].remaining >= 0
  /\ body.analysis.hasDays =>
       \A i \in DOMAIN body.analysis.days :
         /\ ~body.analysis.days[i].exceeded
         /\ body.analysis.days[i].remaining >= 0
  /\ ~body.analysis.overallExceeded

ProfileFrame(clears(_)) ==
  (users' # users) =>
    \A u \in DOMAIN users, email \in EmailInputs, limit \in LimitInputs,
       firstName \in NameInputs, image \in ImageInputs :
      updateProfileBody(TokenOf(u), email, limit, firstName, image) =>
        LET old == users[u]
            new == users'[u]
        IN /\ DOMAIN users' = DOMAIN users
           /\ \A v \in DOMAIN users \ {u} : users'[v] = users[v]
           /\ new.password = old.password
           /\ new.role = old.role
           /\ new.email = IF email = Absent THEN old.email ELSE email
           /\ new.budgetLimit =
                IF limit.type = "number" THEN limit.n ELSE old.budgetLimit
           /\ new.firstName =
                IF firstName \in {"Ann", "Bob"} THEN firstName
                ELSE old.firstName
           /\ new.profileImageUrl =
                IF clears(image) THEN NoImage
                ELSE IF image = "pic.png" THEN image
                ELSE old.profileImageUrl

AskedToRemove(image) == image = Null

NullOrMissing(image) == image \in {Null, Absent}

\* C25: a successful updateProfile changes the fields its body gives with
\* the expected type and no other: an omitted field, the password hash and
\* the role keep their values, and profileImageUrl is unset only when the
\* body asks for it with null.
C25_UpdateProfileFrame == [][ProfileFrame(AskedToRemove)]_vars

\* what holds: the same, except that a body without profileImageUrl unsets
\* the stored one as null does
C25_FrameExceptImage == [][ProfileFrame(NullOrMissing)]_vars

\* a user has a stored image, and a body with firstName only would be
\* answered with a profile without it
C25_Witness ==
  \E u \in DOMAIN users :
    /\ users[u].profileImageUrl = "pic.png"
    /\ \E b \in updateProfileBodyResponse(TokenOf(u), Absent, Undefined,
                                          "Bob", Absent).body :
         /\ b.firstName = "Bob"
         /\ b.profileImageUrl = NoImage
         /\ b.email = users[u].email
         /\ b.budgetLimit = users[u].budgetLimit

\* C26: after a load with a stored token, while the profile request of
\* checkAuth is in flight a protected route shows the loading screen and does
\* not redirect to /login, whether the timer or the response comes first.
C26_StartupShowsLoading ==
  client.checkAuth.pc = "profile" => ProtectedRoute(client) = "loading"

\* what holds: until the timer fires the loading screen is shown, and a
\* response that comes before the timer renders the page
C26_LoadingUntilTimer ==
  /\ [](client.isLoading => ProtectedRoute(client) = "loading")
  /\ [][(client' # client) =>
         \A budgetLimit \in 0..MaxAmount :
           (checkAuthProfile(budgetLimit) /\ client.isLoading) =>
             ProtectedRoute(client') = "page"]_vars

\* what holds: isLoading becomes false whether or not the profile request
\* is ever answered
C26_LoadingEnds == client.isLoading ~> ~client.isLoading

\* the timer has fired with the profile request still in flight: the stored
\* token is in the context, the user is not, and the route redirects
C26_Witness ==
  /\ client.checkAuth.pc = "profile"
  /\ ~client.isLoading
  /\ client.token # NullToken
  /\ client.token = getAuthToken(client)
  /\ client.user = NullUser
  /\ ProtectedRoute(client) = "/login"

\* the storages and the context hold the same token and user before and
\* after the step
SessionUnchanged ==
  /\ client'.local.token = client.local.token
  /\ client'.local.rememberMe = client.local.rememberMe
  /\ client'.session = client.session
  /\ client'.token = client.token
  /\ client'.user = client.user

\* the token this login call was issued is in neither storage nor the context
TokenNowhere(c, token) ==
  /\ c.local.token # token
  /\ c.session.token # token
  /\ c.token # token

C27_Effect ==
  (client' # client) =>
    /\ clientLoginRejected => SessionUnchanged
    /\ clientLoginProfileFails => TokenNowhere(client', client.login.token)

\* C27: when login() rejects, because the credentials are refused or because
\* the profile request fails, the token of the call is in neither storage and
\* not in the context, and the context's user is as before.
C27_LoginAllOrNothing == [][C27_Effect]_vars

\* what holds: refused credentials leave the storages and the context as
\* they were; a failed profile request takes back nothing that login wrote
C27_RefusedLeavesNothing ==
  [][(client' # client) =>
       /\ clientLoginRejected => SessionUnchanged
       /\ clientLoginProfileFails => SessionUnchanged]_vars

\* login() has rejected after its token was stored: the token is in the
\* storage and in the context, the user is null and the Login page is shown
C27_Witness ==
  /\ client.login.pc = "idle" /\ client.checkAuth.pc = "idle"
  /\ client.issued > 0
  /\ client.local.serverStartTime = 0
  /\ client.token # NullToken
  /\ client.token \in {client.local.token, client.session.token}
  /\ client.user = NullUser
  /\ ~client.isLoading
  /\ PublicRoute(client) = "page"

\* no request of the Analysis page is in flight
Settled(a) == \A r \in PageRanges : a.inFlight[r] = 0

\* what the page shows once its requests have settled: the data of the
\* selected range, or nothing when the last request for that range failed
ShowsSelected(a) ==
  \/ a.budgetAnalysis = a.rangeFilter
  \/ a.budgetAnalysis = "null" /\ a.settled[a.rangeFilter] = "rejected"

\* requests are started by the mount, by a change of range, and by a response
\* for one range arriving while another, uncached one is selected: after c
\* changes of range at most 1 + 2 + ... + (c + 1) requests have been made
FetchesBounded(a) == a.fetches <= ((a.changes + 1) * (a.changes + 2)) \div 2

\* a step requests only a range that is not cached
FetchesUncached ==
  (client' # client) =>
    \A r \in PageRanges :
      (/\ client'.analysis.mounted
       /\ client'.analysis.inFlight[r] > client.analysis.inFlight[r]) =>
        /\ r \notin client.analysis.analysisCache
        /\ r \notin client'.analysis.analysisCache
        /\ r = client'.analysis.rangeFilter

\* C28: on the mounted Analysis page, for any order of range changes and of
\* responses, once no request is in flight the data shown is that of the
\* selected range, or nothing only if the request for it failed; the number
\* of requests is bounded by the range changes; and a cached range is not
\* requested again.
C28_AnalysisShowsSelectedRange ==
  /\ [](client.analysis.mounted =>
          /\ Settled(client.analysis) => ShowsSelected(client.analysis)
          /\ FetchesBounded(client.analysis))
  /\ [][FetchesUncached]_vars

\* what holds: the same, with the data shown guaranteed only when no request
\* has failed since the page was mounted
C28_ShowsSelectedUnlessAFailure ==
  /\ [](client.analysis.mounted =>
          /\ (/\ Settled(client.analysis)
              /\ \A r \in PageRanges : client.analysis.settled[r] # "rejected")
               => client.analysis.budgetAnalysis = client.analysis.rangeFilter
          /\ FetchesBounded(client.analysis))
  /\ [][FetchesUncached]_vars

\* the request for the selected range succeeded, the request for the range
\* selected before failed afterwards: nothing is in flight and nothing is shown
C28_Witness ==
  LET a == client.analysis IN
  /\ a.mounted /\ Settled(a)
  /\ a.rangeFilter \in a.analysisCache
  /\ a.settled[a.rangeFilter] = "resolved"
  /\ a.budgetAnalysis = "null"
  /\ \E r \in PageRanges \ {a.rangeFilter} : a.settled[r] = "rejected"

\* a late response for the range selected before has been shown and
\* replaced again by the cached data of the selected range
C28_WitnessLateResponse ==
  LET a == client.analysis IN
  /\ a.mounted /\ Settled(a)
  /\ a.changes >= 1
  /\ Cardinality(a.analysisCache) >= 2
  /\ a.budgetAnalysis = a.rangeFilter

=============================================================================
